---- MODULE Spec2Model ----
(***************************************************************************)
(* Persistence layer of the node: the persister's write path for channel   *)
(* monitors (MutinyNodePersister::init_persist_monitor, persist_monitor),   *)
(* the channel-manager version counter (Persister::persist_manager) and    *)
(* the start-up reconciliation of the local store with the remote          *)
(* versioned store (IndexedDbStorage::read_all / handle_vss_key).          *)
(***************************************************************************)
EXTENDS Integers, Naturals, Sequences, FiniteSets, TLC

VARIABLES
    stop,              \* the shared stop flag of the node (AtomicBool), set when the node stops
    vss_client,        \* storage.vss_client().is_some()
    vss_rejects,       \* the remote store answers a stale put with an error (else it ignores it)
    local_store,       \* local Storage Contract: monitor key -> update id of the stored monitor
    vss_store,         \* Remote Versioned Store: monitor key -> [version, value]
    latest_update_id,  \* monitor.get_latest_update_id() of the live monitor, per key
    jobs,              \* the spawned Monitor Persist Jobs, in spawn order
    returned,          \* what persist_new_channel / update_persisted_channel returned, per call
    acked,             \* (key, update id) pairs passed to channel_monitor_updated
    failures,          \* transient store failures so far
    notify_failures,   \* channel_monitor_updated errors so far
    phase,             \* "running", "crashed" (process gone), "loaded" (after the next start-up)
    loaded,            \* the cache built by read_all at the next start-up
    chain_monitor,     \* MutinyNodePersister.chain_monitor: "None" or "Some"
    manager_version,   \* MutinyNodePersister.manager_version (AtomicU32)
    manager_init,      \* the counter's value when the calls started
    manager_store,     \* local store: manager key -> the stored value (envelope or legacy blob)
    calls,             \* the persist_manager calls, in the order of their fetch_add
    sequential,        \* no persist_manager call has started while another was running
    manager_loaded,    \* read_channel_manager has returned a channel manager
    reads,             \* the read_channel_manager calls, in order, with what they returned
    rc_vss,            \* read_all is given a remote store
    rc_local,          \* what IndexedDB holds when read_all runs: key -> value
    rc_remote,         \* the remote store: key -> [version, value]
    rc_pc,             \* where read_all is: "idle", "start", "listed", "done", "failed"
    rc_results,        \* what handle_vss_key returned, per listed key handled so far
    rc_fetched,        \* keys whose object was asked from the remote store (get_object)
    rc_cache,          \* the map read_all returned
    rm_store,          \* stored monitor records: key -> [decodes, balances]
    rm_pc,             \* where read_channel_monitors is: "idle", "start", "folding", "done"
    rm_todo,           \* scanned records the fold has not visited yet
    rm_acc,            \* the fold's accumulator: keys of the monitors pushed, in order
    rm_result,         \* what read_channel_monitors returned: "none", "Ok", "Err"
    rm_list,           \* the list returned with Ok
    fo_store,          \* the value under the failed-spendable-outputs key
    fo_calls,          \* the persist_failed_spendable_outputs calls, in order of their read
    fo_expected,       \* descriptors of the calls that returned Ok since the last set / clear
    fo_sequential,     \* no operation on the key has started while a call was running
    fo_got,            \* what get_failed_spendable_outputs returned, when it was the last operation
    pay_store,         \* the storage shared by the persisters: payment key -> stored JSON value
    pay_last,          \* <<node id, inbound, hash>> -> info of the last persist that returned Ok
    pay_overwritten,   \* some persist has replaced a stored record by a different info
    pay_got,           \* what read_payment_info / list_payment_info returned, when it was the last operation
    idb_memory,        \* IndexedDbStorage.memory: the in-memory cache, key -> JSON value
    idb_db,            \* the IndexedDB object store: key -> JS value
    idb_queue,         \* the spawn_local tasks that have not finished, oldest first
    idb_calls,         \* number of set / delete calls made
    idb_last,          \* key -> value of the last set, or "None" after a last delete
    idb_failed,        \* keys of the background operations that ended with an error
    idb_raced,         \* keys that had an operation pending when the cache was last reloaded
    idb_reloaded,      \* the cache before reload_from_indexed_db, when it was the last operation
    idb_lock,          \* the RwLock of the cache: "free", or held by a reader or by a writer
    idb_got            \* what get returned, when it was the last operation

monitor_vars == <<stop, vss_client, vss_rejects, local_store, vss_store, latest_update_id,
                  jobs, returned, acked, failures, notify_failures, phase, loaded,
                  chain_monitor>>
manager_vars == <<manager_version, manager_init, manager_store, calls, sequential,
                  manager_loaded, reads>>
\* start-up reconciliation of all key categories
recon_vars == <<rc_vss, rc_local, rc_remote, rc_pc, rc_results, rc_fetched, rc_cache>>
\* read_channel_monitors
scan_vars == <<rm_store, rm_pc, rm_todo, rm_acc, rm_result, rm_list>>
\* the failed spendable outputs of the node
failed_vars == <<fo_store, fo_calls, fo_expected, fo_sequential, fo_got>>
\* the payment records of the nodes
payment_vars == <<pay_store, pay_last, pay_overwritten, pay_got>>
\* the browser store: cache, IndexedDB and the background operations between them
idb_vars == <<idb_memory, idb_db, idb_queue, idb_calls, idb_last, idb_failed, idb_raced,
              idb_reloaded, idb_lock, idb_got>>
more_vars == <<payment_vars, idb_vars>>
aux_vars == <<recon_vars, scan_vars, failed_vars, more_vars>>
vars == <<monitor_vars, manager_vars, aux_vars>>

(***************************************************************************)
(* Bounds                                                                  *)
(***************************************************************************)
MaxJobs == 2
MaxFailures == 1
MaxNotifyFailures == 1
\* write attempts of one job are counted up to MaxAttempts
MaxAttempts == 3
MaxCalls == 3
\* the counter's value when the persist_manager calls start is 0..MaxInitVersion
MaxInitVersion == 2

\* u32::MAX, scaled down: the model's 32-bit values are 0..U32Max and the 64-bit
\* update ids go beyond it
U32Max == 2

(***************************************************************************)
(* Program constants                                                       *)
(***************************************************************************)
MONITORS_PREFIX_KEY == "monitors/"
CHANNEL_MANAGER_KEY == "manager"

\* the monitor keys "monitors/<txid>_<index>_<node_id>" of the node's channels
MonitorKeys == {"monitors/aa_0_node"}

\* update ids a monitor goes through (strictly increasing): below the 32-bit
\* limit, at the limit and above it
UpdateIds == {1, U32Max, U32Max + 1}

InProgress == "InProgress"

\* a map with no entries
EmptyMap == [k \in {} |-> 0]

Put(map, k, v) == [x \in (DOMAIN map) \cup {k} |-> IF x = k THEN v ELSE map[x]]

(***************************************************************************)
(* persist_new_channel / update_persisted_channel: the storage version     *)
(***************************************************************************)
\* variant: the update id is cast to 32 bits, keeping its low bits
MonitorVersionWraps(update_id) ==
    update_id % (U32Max + 1)

\* persist_new_channel: let version = if update_id >= u32::MAX as u64 { .. }
MonitorVersion(update_id) ==
    IF update_id >= U32Max THEN U32Max ELSE update_id

\* update_persisted_channel: the same expression, written a second time
UpdatePersistedChannelVersion(update_id) ==
    IF update_id >= U32Max THEN U32Max ELSE update_id

(***************************************************************************)
(* init_persist_monitor: the job as spawned, before its first poll         *)
(***************************************************************************)
\* variant: the first write is issued inside the call, before it returns
SpawnedJobWritesFirst(key, update_id, version) ==
    [key |-> key, update_id |-> update_id, version |-> version,
     pc |-> "writing", is_retry |-> FALSE,
     local_res |-> "pending", remote_res |-> IF vss_client THEN "pending" ELSE "skip",
     attempts |-> 1, first_ok |-> 0, acks |-> 0, cb_errs |-> 0]

SpawnedJob(key, update_id, version) ==
    [key |-> key, update_id |-> update_id, version |-> version,
     pc |-> "sleep", is_retry |-> FALSE,
     local_res |-> "none", remote_res |-> "none",
     attempts |-> 0, first_ok |-> 0, acks |-> 0, cb_errs |-> 0]

init_persist_monitor(key, update_id, version) ==
    /\ jobs' = Append(jobs, SpawnedJob(key, update_id, version))
    /\ returned' = Append(returned,
                     [status |-> InProgress,
                      attempts |-> jobs'[Len(jobs')].attempts])

persist_new_channel(key, u) ==
    /\ phase = "running"
    /\ Len(jobs) < MaxJobs
    /\ key \notin DOMAIN latest_update_id
    /\ latest_update_id' = Put(latest_update_id, key, u)
    /\ init_persist_monitor(key, u, MonitorVersion(u))
    /\ UNCHANGED <<chain_monitor, stop, vss_client, vss_rejects, local_store, vss_store, acked,
                   failures, notify_failures, phase, loaded, manager_vars, aux_vars>>

update_persisted_channel(key, u) ==
    /\ phase = "running"
    /\ Len(jobs) < MaxJobs
    /\ key \in DOMAIN latest_update_id
    /\ u > latest_update_id[key]
    /\ latest_update_id' = Put(latest_update_id, key, u)
    /\ init_persist_monitor(key, u, UpdatePersistedChannelVersion(u))
    /\ UNCHANGED <<chain_monitor, stop, vss_client, vss_rejects, local_store, vss_store, acked,
                   failures, notify_failures, phase, loaded, manager_vars, aux_vars>>

(***************************************************************************)
(* persist_monitor: which stores one attempt writes to                     *)
(***************************************************************************)
\* MutinyStorage::set_data_async(key, object, Some(version)): the local store
\* and, when a remote store is configured, the remote store, joined
SetDataAsyncTargets ==
    [local |-> TRUE, remote |-> vss_client]

\* variant: a retry writes to the local store again, like the first attempt
PersistMonitorTargetsRetryBoth(vss_only) ==
    SetDataAsyncTargets

\* variant: a retry takes the Ok(()) arm although a remote store is configured
PersistMonitorTargetsRetrySkips(vss_only) ==
    IF vss_only
    THEN [local |-> FALSE, remote |-> FALSE]
    ELSE SetDataAsyncTargets

\* persist_monitor(storage, key, object, Some(version), vss_only, logger)
PersistMonitorTargets(vss_only) ==
    IF vss_only
    THEN [local |-> FALSE, remote |-> vss_client]
    ELSE SetDataAsyncTargets

\* the attempt's result once its writes have settled: "pending", "Ok" or "Err"
PersistMonitorResult(j) ==
    IF j.local_res = "err" \/ j.remote_res = "err" THEN "Err"
    ELSE IF j.local_res = "pending" \/ j.remote_res = "pending" THEN "pending"
    ELSE "Ok"

SetJob(i, j) == jobs' = [jobs EXCEPT ![i] = j]

\* loop head after sleep(50) / sleep(1_000): persist_monitor is called
JobStartAttempt(i) ==
    /\ phase = "running"
    /\ i \in DOMAIN jobs
    /\ jobs[i].pc \in {"sleep", "backoff"}
    /\ LET t == PersistMonitorTargets(jobs[i].is_retry)
       IN SetJob(i, [jobs[i] EXCEPT
                        !.pc = "writing",
                        !.attempts = IF @ < MaxAttempts THEN @ + 1 ELSE @,
                        !.local_res = IF t.local THEN "pending" ELSE "skip",
                        !.remote_res = IF t.remote THEN "pending" ELSE "skip"])
    /\ UNCHANGED <<chain_monitor, stop, vss_client, vss_rejects, local_store, vss_store, latest_update_id,
                   returned, acked, failures, notify_failures, phase, loaded,
                   manager_vars, aux_vars>>

\* storage.set_async(key, value): the local half of the attempt settles
LocalWrite(i, ok) ==
    /\ phase = "running"
    /\ i \in DOMAIN jobs
    /\ jobs[i].pc = "writing"
    /\ jobs[i].local_res = "pending"
    /\ IF ok
       THEN /\ local_store' = Put(local_store, jobs[i].key, jobs[i].update_id)
            /\ SetJob(i, [jobs[i] EXCEPT !.local_res = "ok"])
            /\ UNCHANGED failures
       ELSE /\ failures < MaxFailures
            /\ failures' = failures + 1
            /\ SetJob(i, [jobs[i] EXCEPT !.local_res = "err"])
            /\ UNCHANGED local_store
    /\ UNCHANGED <<chain_monitor, stop, vss_client, vss_rejects, vss_store, latest_update_id, returned,
                   acked, notify_failures, phase, loaded, manager_vars, aux_vars>>

\* the remote store's decision on one item of put_objects
VssAccepts(key, version) ==
    \/ key \notin DOMAIN vss_store
    \/ version > vss_store[key].version

\* vss.put_objects(vec![item]): the remote half of the attempt settles
RemotePut(i, ok) ==
    /\ phase = "running"
    /\ i \in DOMAIN jobs
    /\ jobs[i].pc = "writing"
    /\ jobs[i].remote_res = "pending"
    /\ IF ~ok
       THEN /\ failures < MaxFailures
            /\ failures' = failures + 1
            /\ SetJob(i, [jobs[i] EXCEPT !.remote_res = "err"])
            /\ UNCHANGED vss_store
       ELSE /\ UNCHANGED failures
            /\ IF VssAccepts(jobs[i].key, jobs[i].version)
               THEN /\ vss_store' = Put(vss_store, jobs[i].key,
                                        [version |-> jobs[i].version,
                                         value |-> jobs[i].update_id])
                    /\ SetJob(i, [jobs[i] EXCEPT !.remote_res = "ok"])
               ELSE /\ UNCHANGED vss_store
                    /\ SetJob(i, [jobs[i] EXCEPT
                                   !.remote_res = IF vss_rejects THEN "err" ELSE "noop"])
    /\ UNCHANGED <<chain_monitor, stop, vss_client, vss_rejects, local_store, latest_update_id, returned,
                   acked, notify_failures, phase, loaded, manager_vars, aux_vars>>

\* persist_monitor returns; Err: log, is_retry = true, sleep(1_000)
JobAttemptDone(i) ==
    /\ phase = "running"
    /\ i \in DOMAIN jobs
    /\ jobs[i].pc = "writing"
    /\ LET r == PersistMonitorResult(jobs[i])
       IN /\ r # "pending"
          /\ IF r = "Ok"
             THEN SetJob(i, [jobs[i] EXCEPT
                               !.pc = "notify",
                               !.first_ok = IF @ = 0 THEN jobs[i].attempts ELSE @])
             ELSE SetJob(i, [jobs[i] EXCEPT
                               !.pc = "backoff", !.is_retry = TRUE,
                               !.local_res = IF @ = "pending" THEN "dropped" ELSE @,
                               !.remote_res = IF @ = "pending" THEN "dropped" ELSE @])
    /\ UNCHANGED <<chain_monitor, stop, vss_client, vss_rejects, local_store, vss_store, latest_update_id,
                   returned, acked, failures, notify_failures, phase, loaded,
                   manager_vars, aux_vars>>

\* where the loop goes after chain_monitor.channel_monitor_updated returned
AfterNotify(j, cb_ok) ==
    IF cb_ok
    THEN [j EXCEPT !.pc = "done", !.acks = @ + 1]
    ELSE [j EXCEPT !.pc = "backoff", !.is_retry = TRUE,
                   !.acks = @ + 1, !.cb_errs = @ + 1]

\* Ok(()) arm: chain_monitor.lock().await, as_ref().unwrap(), and then
\* chain_monitor.channel_monitor_updated(funding_txo, monitor_update_id); the
\* unwrap of an empty handle panics and the task is gone
JobNotify(i, cb_ok) ==
    /\ phase = "running"
    /\ i \in DOMAIN jobs
    /\ jobs[i].pc = "notify"
    /\ IF chain_monitor = "None"
       THEN /\ SetJob(i, [jobs[i] EXCEPT !.pc = "panicked"])
            /\ UNCHANGED <<notify_failures, acked>>
       ELSE /\ cb_ok \/ notify_failures < MaxNotifyFailures
            /\ notify_failures' = IF cb_ok THEN notify_failures ELSE notify_failures + 1
            /\ acked' = acked \cup {<<jobs[i].key, jobs[i].update_id>>}
            /\ SetJob(i, AfterNotify(jobs[i], cb_ok))
    /\ UNCHANGED <<chain_monitor, stop, vss_client, vss_rejects, local_store, vss_store,
                   latest_update_id, returned, failures, phase, loaded, manager_vars,
                   aux_vars>>

(***************************************************************************)
(* Crash and the next start-up                                             *)
(***************************************************************************)
\* the process dies: every task and everything in memory is gone, the stores stay
Crash ==
    /\ phase = "running"
    /\ phase' = "crashed"
    /\ jobs' = <<>>
    /\ returned' = <<>>
    /\ UNCHANGED <<chain_monitor, stop, vss_client, vss_rejects, local_store, vss_store, latest_update_id,
                   acked, failures, notify_failures, loaded, manager_vars, aux_vars>>

\* utils::get_monitor_version(bytes): the update id in the monitor's encoding
get_monitor_version(value) == value

\* handle_vss_key for a key that starts with MONITORS_PREFIX_KEY:
\* TRUE when the remote object replaces the local value
HandleVssMonitorKey(current, key, kv_version) ==
    IF key \in DOMAIN current
    THEN get_monitor_version(current[key]) < kv_version
    ELSE TRUE

\* read_all: the local records, then the remote objects handle_vss_key returned
ReadAll ==
    IF ~vss_client
    THEN local_store
    ELSE [k \in (DOMAIN local_store) \cup (DOMAIN vss_store) |->
            IF k \in DOMAIN vss_store
               /\ HandleVssMonitorKey(local_store, k, vss_store[k].version)
            THEN vss_store[k].value
            ELSE local_store[k]]

Load ==
    /\ phase = "crashed"
    /\ phase' = "loaded"
    /\ loaded' = ReadAll
    /\ UNCHANGED <<chain_monitor, stop, vss_client, vss_rejects, local_store, vss_store, latest_update_id,
                   jobs, returned, acked, failures, notify_failures, manager_vars, aux_vars>>

(***************************************************************************)
(* Specification of the monitor write path                                 *)
(***************************************************************************)
ManagerIdle ==
    /\ manager_version = 0
    /\ manager_init = 0
    /\ manager_store = EmptyMap
    /\ calls = <<>>
    /\ sequential = TRUE
    /\ manager_loaded = TRUE
    /\ reads = <<>>

\* no reconciliation under way
ReconIdle ==
    /\ rc_vss = FALSE
    /\ rc_local = EmptyMap
    /\ rc_remote = EmptyMap
    /\ rc_pc = "idle"
    /\ rc_results = EmptyMap
    /\ rc_fetched = {}
    /\ rc_cache = EmptyMap

\* no get_failed_spendable_outputs result at hand
NoGot == [result |-> "none", list |-> <<>>, expected |-> <<>>, quiet |-> FALSE,
          last |-> "none", arg |-> <<>>]

\* no read_channel_monitors under way
ScanIdle ==
    /\ rm_store = EmptyMap
    /\ rm_pc = "idle"
    /\ rm_todo = {}
    /\ rm_acc = <<>>
    /\ rm_result = "none"
    /\ rm_list = <<>>

\* nothing stored under the failed-spendable-outputs key, no call made
FailedIdle ==
    /\ fo_store = [present |-> FALSE, list |-> <<>>]
    /\ fo_calls = <<>>
    /\ fo_expected = <<>>
    /\ fo_sequential = TRUE
    /\ fo_got = NoGot

NoPayGot == [op |-> "none"]

\* no payment persisted yet
PaymentIdle ==
    /\ pay_store = EmptyMap
    /\ pay_last = EmptyMap
    /\ pay_overwritten = FALSE
    /\ pay_got = NoPayGot

NoReload == [op |-> "none"]

NoIdbGot == [op |-> "none"]

\* IndexedDbStorage::new over an empty database
IdbIdle ==
    /\ idb_memory = EmptyMap
    /\ idb_db = EmptyMap
    /\ idb_queue = <<>>
    /\ idb_calls = 0
    /\ idb_last = EmptyMap
    /\ idb_failed = {}
    /\ idb_raced = {}
    /\ idb_reloaded = NoReload
    /\ idb_lock = "free"
    /\ idb_got = NoIdbGot

MoreIdle == PaymentIdle /\ IdbIdle

AuxIdle == ReconIdle /\ ScanIdle /\ FailedIdle /\ MoreIdle

\* MutinyNodePersister::new, on the storage the node was given
InitNew ==
    /\ vss_client \in BOOLEAN
    /\ vss_rejects \in BOOLEAN
    /\ vss_client \/ ~vss_rejects
    /\ local_store = EmptyMap
    /\ vss_store = EmptyMap
    /\ latest_update_id = EmptyMap
    /\ jobs = <<>>
    /\ returned = <<>>
    /\ acked = {}
    /\ failures = 0
    /\ notify_failures = 0
    /\ phase = "running"
    /\ stop = FALSE
    /\ loaded = EmptyMap
    /\ ManagerIdle
    /\ AuxIdle

\* the node has been built: the chain monitor was created on the persister and
\* the persister's handle was set to it before any monitor is persisted
Init ==
    /\ InitNew
    /\ chain_monitor = "Some"

Next ==
    \/ \E k \in MonitorKeys, u \in UpdateIds : persist_new_channel(k, u)
    \/ \E k \in MonitorKeys, u \in UpdateIds : update_persisted_channel(k, u)
    \/ \E i \in 1..MaxJobs : JobStartAttempt(i)
    \/ \E i \in 1..MaxJobs, ok \in BOOLEAN : LocalWrite(i, ok)
    \/ \E i \in 1..MaxJobs, ok \in BOOLEAN : RemotePut(i, ok)
    \/ \E i \in 1..MaxJobs : JobAttemptDone(i)
    \/ \E i \in 1..MaxJobs, cb_ok \in BOOLEAN : JobNotify(i, cb_ok)
    \/ Crash
    \/ Load

Spec == Init /\ [][Next]_vars

\* the persister as MutinyNodePersister::new leaves it: the handle is empty
InitPersister ==
    /\ InitNew
    /\ chain_monitor = "None"

\* the owner of the persister stores the chain monitor in the handle
SetChainMonitor ==
    /\ phase = "running"
    /\ chain_monitor = "None"
    /\ chain_monitor' = "Some"
    /\ UNCHANGED <<stop, vss_client, vss_rejects, local_store, vss_store, latest_update_id,
                   jobs, returned, acked, failures, notify_failures, phase, loaded,
                   manager_vars, aux_vars>>

\* the persister's operations from its construction on
NextPersister ==
    \/ \E k \in MonitorKeys, u \in UpdateIds : persist_new_channel(k, u)
    \/ \E k \in MonitorKeys, u \in UpdateIds : update_persisted_channel(k, u)
    \/ \E i \in 1..MaxJobs : JobStartAttempt(i)
    \/ \E i \in 1..MaxJobs, ok \in BOOLEAN : LocalWrite(i, ok)
    \/ \E i \in 1..MaxJobs, ok \in BOOLEAN : RemotePut(i, ok)
    \/ \E i \in 1..MaxJobs : JobAttemptDone(i)
    \/ \E i \in 1..MaxJobs, cb_ok \in BOOLEAN : JobNotify(i, cb_ok)
    \/ SetChainMonitor

SpecPersister == InitPersister /\ [][NextPersister]_vars

(***************************************************************************)
(* persist_manager                                                         *)
(***************************************************************************)
\* get_key(key): format!("{}_{}", key, self.node_id)
get_key(key) == key \o "_node"

\* variant: the counter is read, not advanced
FetchAddNewLoadOnly(cur) == cur

\* manager_version.fetch_add(1, SeqCst): the counter's new value
FetchAddNew(cur) == cur + 1

\* variant: the envelope carries the counter's old value
ManagerEnvelopeVersionOld(old) == old

\* let version = old + 1
ManagerEnvelopeVersion(old) == old + 1

\* first statement of persist_manager: the atomic fetch_add and the envelope built
PersistManagerFetchAdd ==
    /\ manager_loaded
    /\ Len(calls) < MaxCalls
    /\ manager_version' = FetchAddNew(manager_version)
    /\ calls' = Append(calls,
                  [pc |-> "set_data",
                   key |-> get_key(CHANNEL_MANAGER_KEY),
                   version |-> ManagerEnvelopeVersion(manager_version),
                   result |-> "pending", vss |-> "none", counter_at_return |-> 0,
                   writes |-> 0, error |-> "none"])
    /\ sequential' = (sequential /\ \A i \in DOMAIN calls : calls[i].pc = "returned")
    /\ UNCHANGED <<manager_init, manager_store, manager_loaded, reads, monitor_vars, aux_vars>>

\* VersionedValue { version, value: to_value(channel_manager.encode().to_hex()) }
\* as stored: a versioned envelope whose payload is the hex string of a readable
\* channel manager; `value` tells the envelopes of different calls apart
VersionedValue(version, value) ==
    [format |-> "versioned", version |-> version, payload |-> "ok", value |-> value]

\* variant: a failed write gives the version back to the counter
PersistManagerSetDataRollsBack(i, ok) ==
    /\ i \in DOMAIN calls
    /\ calls[i].pc = "set_data"
    /\ manager_version' = IF ok THEN manager_version ELSE manager_version - 1
    /\ calls' = [calls EXCEPT ![i] =
                   [@ EXCEPT !.pc = "returned",
                             !.result = IF ok THEN "Ok" ELSE "Err",
                             !.writes = @ + 1,
                             !.error = IF ok THEN "none" ELSE "Other",
                             !.vss = IF vss_client THEN "pending" ELSE "none",
                             !.counter_at_return = manager_version']]
    /\ manager_store' = IF ok
                        THEN Put(manager_store, calls[i].key,
                                 VersionedValue(calls[i].version, i))
                        ELSE manager_store
    /\ UNCHANGED <<manager_init, sequential, manager_loaded, reads, monitor_vars, aux_vars>>

\* variant: a failed write is tried again inside the call
PersistManagerSetDataRetries(i, ok) ==
    /\ i \in DOMAIN calls
    /\ calls[i].pc = "set_data"
    /\ calls' = [calls EXCEPT ![i] =
                   [@ EXCEPT !.pc = IF ok THEN "returned" ELSE "set_data",
                             !.result = IF ok THEN "Ok" ELSE "pending",
                             !.writes = @ + 1,
                             !.vss = IF vss_client THEN "pending" ELSE "none",
                             !.counter_at_return = manager_version]]
    /\ manager_store' = IF ok
                        THEN Put(manager_store, calls[i].key,
                                 VersionedValue(calls[i].version, i))
                        ELSE manager_store
    /\ UNCHANGED <<manager_version, manager_init, sequential, manager_loaded, reads,
                   monitor_vars, aux_vars>>

\* storage.set_data(key, value, Some(version)): the local write, and the put to
\* the remote store spawned in the background when one is configured; every error
\* is mapped to io::ErrorKind::Other
PersistManagerSetData(i, ok) ==
    /\ i \in DOMAIN calls
    /\ calls[i].pc = "set_data"
    /\ calls' = [calls EXCEPT ![i] =
                   [@ EXCEPT !.pc = "returned",
                             !.result = IF ok THEN "Ok" ELSE "Err",
                             !.writes = @ + 1,
                             !.error = IF ok THEN "none" ELSE "Other",
                             !.vss = IF vss_client THEN "pending" ELSE "none",
                             !.counter_at_return = manager_version]]
    /\ manager_store' = IF ok
                        THEN Put(manager_store, calls[i].key,
                                 VersionedValue(calls[i].version, i))
                        ELSE manager_store
    /\ UNCHANGED <<manager_version, manager_init, sequential, manager_loaded, reads,
                   monitor_vars, aux_vars>>

\* the spawned vss.put_objects of one persist_manager call settles
PersistManagerVssPut(i, ok) ==
    /\ i \in DOMAIN calls
    /\ calls[i].vss = "pending"
    /\ IF ok /\ VssAccepts(calls[i].key, calls[i].version)
       THEN /\ vss_store' = Put(vss_store, calls[i].key,
                                [version |-> calls[i].version, value |-> i])
            /\ calls' = [calls EXCEPT ![i] = [@ EXCEPT !.vss = "ok"]]
       ELSE /\ UNCHANGED vss_store
            /\ calls' = [calls EXCEPT ![i] =
                           [@ EXCEPT !.vss = IF ok /\ ~vss_rejects THEN "noop" ELSE "err"]]
    /\ UNCHANGED <<manager_version, manager_init, manager_store, sequential,
                   manager_loaded, reads,
                   chain_monitor, stop, vss_client, vss_rejects, local_store,
                   latest_update_id, jobs, returned, acked, failures, notify_failures,
                   phase, loaded, aux_vars>>

(***************************************************************************)
(* Specification of the channel-manager write path                         *)
(***************************************************************************)
InitManager ==
    /\ vss_client \in BOOLEAN
    /\ vss_rejects \in BOOLEAN
    /\ vss_client \/ ~vss_rejects
    /\ local_store = EmptyMap
    /\ vss_store = EmptyMap
    /\ latest_update_id = EmptyMap
    /\ jobs = <<>>
    /\ returned = <<>>
    /\ acked = {}
    /\ failures = 0
    /\ notify_failures = 0
    /\ phase = "running"
    /\ stop = FALSE
    /\ loaded = EmptyMap
    /\ chain_monitor = "Some"
    /\ manager_init \in 0..MaxInitVersion
    /\ manager_version = manager_init
    /\ manager_store = EmptyMap
    /\ calls = <<>>
    /\ sequential = TRUE
    /\ manager_loaded = TRUE
    /\ reads = <<>>
    /\ AuxIdle

NextManager ==
    \/ PersistManagerFetchAdd
    \/ \E i \in 1..MaxCalls, ok \in BOOLEAN : PersistManagerSetData(i, ok)
    \/ \E i \in 1..MaxCalls, ok \in BOOLEAN : PersistManagerVssPut(i, ok)

SpecManager == InitManager /\ [][NextManager]_vars

(***************************************************************************)
(* read_channel_manager: the start of a node on whatever the manager key   *)
(* holds, followed by persist_manager calls                                *)
(***************************************************************************)
MaxReads == 2

LegacyPayloads == {"ok", "bad_bytes"}
VersionedPayloads == {"ok", "not_string", "not_hex", "bad_bytes"}

\* what the manager key can hold when the node starts: a legacy unversioned byte
\* blob (readable or not), a versioned envelope (whose value is the hex of a
\* readable manager, not a string, not hex, or hex of unreadable bytes), or a value
\* of neither shape
StoredManagerValues ==
    {[format |-> "legacy", version |-> 0, payload |-> p, value |-> 0] :
        p \in LegacyPayloads}
    \cup {[format |-> "versioned", version |-> v, payload |-> p, value |-> 0] :
        v \in 1..MaxInitVersion, p \in VersionedPayloads}
    \cup {[format |-> "junk", version |-> 0, payload |-> "bad_bytes", value |-> 0]}

\* storage.get_data::<T>(key): Ok(None) for a missing key, Ok(Some(..)) when the
\* stored value deserialises as T, Err otherwise
GetData(store, key, format) ==
    IF key \notin DOMAIN store THEN "None"
    ELSE IF store[key].format = format THEN "Some"
    ELSE "Err"

\* read_value(key): the legacy bytes under the key, or an error
ReadValue(store, key) ==
    IF GetData(store, key, "legacy") = "Some" THEN "Ok" ELSE "Err"

ReadFailed(path) ==
    [path |-> path, result |-> "Err", is_restarting |-> FALSE, swap |-> FALSE]

\* variant: a value that is not a versioned envelope is an error, with no legacy read
ReadChannelManagerOutcomeNoLegacy(store, key, chain_ok) ==
    LET first == GetData(store, key, "versioned")
    IN  IF first = "Some"
        THEN IF store[key].payload = "ok"
             THEN [path |-> "versioned", result |-> "Ok",
                   is_restarting |-> TRUE, swap |-> TRUE]
             ELSE ReadFailed("versioned")
        ELSE IF first = "None"
        THEN IF chain_ok
             THEN [path |-> "new", result |-> "Ok",
                   is_restarting |-> FALSE, swap |-> FALSE]
             ELSE ReadFailed("new")
        ELSE ReadFailed("legacy")

\* variant: a failure inside the versioned arm goes on to the legacy read
ReadChannelManagerOutcomeAlwaysLegacy(store, key, chain_ok) ==
    LET first == GetData(store, key, "versioned")
        legacy == IF ReadValue(store, key) = "Ok" /\ store[key].payload = "ok"
                  THEN [path |-> "legacy", result |-> "Ok",
                        is_restarting |-> TRUE, swap |-> FALSE]
                  ELSE ReadFailed("legacy")
    IN  IF first = "Some"
        THEN IF store[key].payload = "ok"
             THEN [path |-> "versioned", result |-> "Ok",
                   is_restarting |-> TRUE, swap |-> TRUE]
             ELSE legacy
        ELSE IF first = "None"
        THEN IF chain_ok
             THEN [path |-> "new", result |-> "Ok",
                   is_restarting |-> FALSE, swap |-> FALSE]
             ELSE ReadFailed("new")
        ELSE legacy

\* variant: a decoded legacy blob is reported as a fresh manager
ReadChannelManagerOutcomeLegacyFresh(store, key, chain_ok) ==
    LET first == GetData(store, key, "versioned")
    IN  IF first = "Some"
        THEN IF store[key].payload = "ok"
             THEN [path |-> "versioned", result |-> "Ok",
                   is_restarting |-> TRUE, swap |-> TRUE]
             ELSE ReadFailed("versioned")
        ELSE IF first = "None"
        THEN IF chain_ok
             THEN [path |-> "new", result |-> "Ok",
                   is_restarting |-> FALSE, swap |-> FALSE]
             ELSE ReadFailed("new")
        ELSE IF ReadValue(store, key) = "Ok" /\ store[key].payload = "ok"
             THEN [path |-> "legacy", result |-> "Ok",
                   is_restarting |-> FALSE, swap |-> FALSE]
             ELSE ReadFailed("legacy")

\* the three arms of read_channel_manager's match on get_data::<VersionedValue>
ReadChannelManagerOutcome(store, key, chain_ok) ==
    LET first == GetData(store, key, "versioned")
    IN  IF first = "Some"
        THEN \* hex string, from_hex, parse_channel_manager, each with `?`
             IF store[key].payload = "ok"
             THEN [path |-> "versioned", result |-> "Ok",
                   is_restarting |-> TRUE, swap |-> TRUE]
             ELSE ReadFailed("versioned")
        ELSE IF first = "None"
        THEN \* create_new_channel_manager: the chain tip is asked from esplora
             IF chain_ok
             THEN [path |-> "new", result |-> "Ok",
                   is_restarting |-> FALSE, swap |-> FALSE]
             ELSE ReadFailed("new")
        ELSE \* Err(_): read_value and parse_channel_manager
             IF ReadValue(store, key) = "Ok" /\ store[key].payload = "ok"
             THEN [path |-> "legacy", result |-> "Ok",
                   is_restarting |-> TRUE, swap |-> FALSE]
             ELSE ReadFailed("legacy")

\* Node::new after `read_channel_manager(..).await?`: the monitors read from the
\* store are given to the chain monitor (watch_channel) inside
\* `if read_channel_manager.is_restarting`
WatchesChannels(o) == o.result = "Ok" /\ o.is_restarting

\* variant: the loaded version is dropped and the counter keeps its value
ManagerVersionSwapKeeps(cur, version) == cur

\* self.manager_version.swap(versioned_value.version, Ordering::SeqCst)
ManagerVersionSwap(cur, version) == version

ReadChannelManager(chain_ok) ==
    /\ Len(reads) < MaxReads
    /\ LET key == get_key(CHANNEL_MANAGER_KEY)
           o == ReadChannelManagerOutcome(manager_store, key, chain_ok)
       IN  /\ manager_version' =
                 IF o.swap
                 THEN ManagerVersionSwap(manager_version, manager_store[key].version)
                 ELSE manager_version
           /\ manager_loaded' = (manager_loaded \/ o.result = "Ok")
           /\ reads' = Append(reads,
                 [path |-> o.path, result |-> o.result,
                  is_restarting |-> o.is_restarting,
                  watched |-> WatchesChannels(o),
                  counter_before |-> manager_version,
                  counter_after |-> manager_version',
                  ncalls |-> Len(calls),
                  pending |-> Cardinality({i \in DOMAIN calls : calls[i].pc = "set_data"}),
                  stored_format |-> IF key \in DOMAIN manager_store
                                    THEN manager_store[key].format ELSE "none",
                  stored_version |-> IF key \in DOMAIN manager_store
                                     THEN manager_store[key].version ELSE 0,
                  stored_payload |-> IF key \in DOMAIN manager_store
                                     THEN manager_store[key].payload ELSE "none"])
    /\ UNCHANGED <<manager_init, manager_store, calls, sequential, monitor_vars, aux_vars>>

\* MutinyNodePersister::new over a store without a remote store configured
InitRestart ==
    /\ vss_client = FALSE
    /\ vss_rejects = FALSE
    /\ local_store = EmptyMap
    /\ vss_store = EmptyMap
    /\ latest_update_id = EmptyMap
    /\ jobs = <<>>
    /\ returned = <<>>
    /\ acked = {}
    /\ failures = 0
    /\ notify_failures = 0
    /\ phase = "running"
    /\ stop = FALSE
    /\ loaded = EmptyMap
    /\ chain_monitor = "Some"
    /\ manager_version = 0
    /\ manager_init = 0
    /\ manager_store \in {EmptyMap}
          \cup {Put(EmptyMap, get_key(CHANNEL_MANAGER_KEY), v) : v \in StoredManagerValues}
    /\ calls = <<>>
    /\ sequential = TRUE
    /\ manager_loaded = FALSE
    /\ reads = <<>>
    /\ AuxIdle

NextRestart ==
    \/ \E chain_ok \in BOOLEAN : ReadChannelManager(chain_ok)
    \/ PersistManagerFetchAdd
    \/ \E i \in 1..MaxCalls, ok \in BOOLEAN : PersistManagerSetData(i, ok)

SpecRestart == InitRestart /\ [][NextRestart]_vars

(***************************************************************************)
(* IndexedDbStorage::read_all / handle_vss_key over every key category     *)
(***************************************************************************)
\* keys listed or stored when read_all runs
MaxReconKeys == 1

NODES_KEY == "nodes"
DEVICE_LOCK_KEY == "device_lock"
PAYMENT_INBOUND_PREFIX_KEY == "payment_inbound/"
PAYMENT_OUTBOUND_PREFIX_KEY == "payment_outbound/"

\* what follows a prefix in the keys of one node
KeyRests == {"aa_0_node", "bb_1_node", "aa_0_other", "_node", "00_node",
             "01_node", "00_other", "01_other", "aa_0_xnode"}

ReconKeys ==
    {NODES_KEY, DEVICE_LOCK_KEY,
     MONITORS_PREFIX_KEY \o "aa_0_node",
     get_key(CHANNEL_MANAGER_KEY),
     PAYMENT_INBOUND_PREFIX_KEY \o "00_node"}

\* key.starts_with(prefix)
StartsWith(key, prefix) == \E rest \in KeyRests : key = prefix \o rest

\* the arm of handle_vss_key's match that a key takes
KeyCategory(key) ==
    IF key = NODES_KEY THEN "nodes"
    ELSE IF key = DEVICE_LOCK_KEY THEN "lock"
    ELSE IF StartsWith(key, MONITORS_PREFIX_KEY) THEN "monitor"
    ELSE IF StartsWith(key, CHANNEL_MANAGER_KEY) THEN "manager"
    ELSE "other"

\* the type a value of the category deserialises as
KindOf(category) ==
    IF category = "nodes" THEN "NodeStorage"
    ELSE IF category = "lock" THEN "DeviceLock"
    ELSE IF category = "monitor" THEN "bytes"
    ELSE IF category = "manager" THEN "VersionedValue"
    ELSE "other"

\* versions a value carries inside: a 64-bit update id for a monitor, 32 bits
\* (NodeStorage.version, DeviceLock.time, VersionedValue.version) for the others
InnerVersions(category) ==
    IF category = "monitor" THEN {0} \cup UpdateIds
    ELSE IF category = "other" THEN {0}
    ELSE 0..U32Max

\* values a key can hold: well-formed ones of its category, and one that does not
\* deserialise as the category's type
ValuesOf(key, src) ==
    LET c == KeyCategory(key)
    IN  {[kind |-> KindOf(c), version |-> v, src |-> src] : v \in InnerVersions(c)}
        \cup (IF c = "other" THEN {}
              ELSE {[kind |-> "junk", version |-> 0, src |-> src]})

LocalMaps ==
    {EmptyMap} \cup
    UNION {{Put(EmptyMap, k, v) : v \in ValuesOf(k, "local")} : k \in ReconKeys}

\* the remote store lists a 32-bit version for the key and holds an object
RemoteMaps ==
    {EmptyMap} \cup
    UNION {{Put(EmptyMap, k, [version |-> r, value |-> v]) :
               r \in 1..U32Max, v \in ValuesOf(k, "remote")} : k \in ReconKeys}

\* the union of two maps on different keys
Merge(m1, m2) ==
    [k \in (DOMAIN m1) \cup (DOMAIN m2) |-> IF k \in DOMAIN m1 THEN m1[k] ELSE m2[k]]

RECURSIVE MapsUpTo(_, _)
\* maps made of at most n single-key maps of the set
MapsUpTo(singles, n) ==
    IF n = 0 THEN {EmptyMap}
    ELSE LET smaller == MapsUpTo(singles, n - 1)
         IN  smaller \cup
             UNION {{Merge(m, x) : x \in {y \in singles :
                                            (DOMAIN y) \cap (DOMAIN m) = {}}} :
                    m \in smaller}

\* current.get_data::<T>(key) / current.get::<Vec<u8>>(key) on the local map
LocalGet(current, key) ==
    IF key \notin DOMAIN current THEN "None"
    ELSE IF current[key].kind = KindOf(KeyCategory(key)) THEN "Some"
    ELSE "Err"

\* utils::get_monitor_version(&bytes)
MonitorBytesVersion(bytes) == bytes.version

\* variant: the local update id is cast to the 32 bits of the storage version
MonitorIsBehindTruncated(current_version, kv_version) ==
    (current_version % (U32Max + 1)) < kv_version

\* current_version < kv.version as u64
MonitorIsBehind(current_version, kv_version) ==
    current_version < kv_version

\* variant: an equal remote version also replaces the local envelope
ManagerIsBehindOrEqual(local_version, kv_version) ==
    local_version <= kv_version

\* local.version < kv.version
ManagerIsBehind(local_version, kv_version) ==
    local_version < kv_version

\* variant: a monitor key with no local value is skipped
HandleAbsentSkipsMonitors(category) ==
    IF category \in {"nodes", "lock"} THEN "fetch"
    ELSE IF category = "manager" THEN "fetch_checked"
    ELSE "skip"

\* the None arms: the object is fetched and returned as it is ("fetch"), returned
\* only when it deserialises as the category's type ("fetch_checked"), or the key
\* falls through to Ok(None) ("skip")
HandleAbsent(category) ==
    IF category \in {"nodes", "lock", "monitor"} THEN "fetch"
    ELSE IF category = "manager" THEN "fetch_checked"
    ELSE "skip"

\* the Some(local) arms
HandlePresent(category, local, kv_version) ==
    IF category \in {"nodes", "lock"}
    THEN IF local.version < kv_version THEN "fetch_checked" ELSE "skip"
    ELSE IF category = "monitor"
    THEN IF MonitorIsBehind(MonitorBytesVersion(local), kv_version)
         THEN "fetch" ELSE "skip"
    ELSE IF category = "manager"
    THEN IF ManagerIsBehind(local.version, kv_version) THEN "fetch_checked" ELSE "skip"
    ELSE "skip"

\* variant: a key of no known category is fetched and returned like a monitor
HandleVssKeyDecisionFetchesOther(key, kv_version, current) ==
    LET c == KeyCategory(key)
        got == LocalGet(current, key)
    IN  IF c = "other" THEN "fetch"
        ELSE IF got = "Err" THEN "err"
        ELSE IF got = "None" THEN HandleAbsent(c)
        ELSE HandlePresent(c, current[key], kv_version)

\* what handle_vss_key does with the key: "err" when the local value cannot be read
HandleVssKeyDecision(key, kv_version, current) ==
    LET c == KeyCategory(key)
        got == LocalGet(current, key)
    IN  IF c = "other" THEN "skip"
        ELSE IF got = "Err" THEN "err"
        ELSE IF got = "None" THEN HandleAbsent(c)
        ELSE HandlePresent(c, current[key], kv_version)

\* handle_vss_key(kv, vss, current, logger) -> Result<Option<(String, Value)>>
handle_vss_key(key, kv_version, obj_value, current, fetch_ok) ==
    LET d == HandleVssKeyDecision(key, kv_version, current)
    IN  IF d = "err" THEN [out |-> "err", fetched |-> FALSE]
        ELSE IF d = "skip" THEN [out |-> "none", fetched |-> FALSE]
        ELSE IF ~fetch_ok THEN [out |-> "err", fetched |-> TRUE]
        ELSE IF d = "fetch_checked" /\ obj_value.kind # KindOf(KeyCategory(key))
        THEN [out |-> "none", fetched |-> TRUE]
        ELSE [out |-> "some", fetched |-> TRUE]

\* read_all with vss = None: the local map
ReadAllLocalOnly ==
    /\ rc_pc = "start"
    /\ ~rc_vss
    /\ rc_pc' = "done"
    /\ rc_cache' = rc_local
    /\ UNCHANGED <<rc_vss, rc_local, rc_remote, rc_results, rc_fetched,
                   monitor_vars, manager_vars, scan_vars, failed_vars, more_vars>>

\* vss.list_key_versions(None).await?
ListKeyVersions(ok) ==
    /\ rc_pc = "start"
    /\ rc_vss
    /\ rc_pc' = IF ok THEN "listed" ELSE "failed"
    /\ UNCHANGED <<rc_vss, rc_local, rc_remote, rc_results, rc_fetched, rc_cache,
                   monitor_vars, manager_vars, scan_vars, failed_vars, more_vars>>

\* one of the joined handle_vss_key futures completes
HandleVssKey(key, fetch_ok) ==
    /\ rc_pc = "listed"
    /\ key \in DOMAIN rc_remote
    /\ key \notin DOMAIN rc_results
    /\ LET res == handle_vss_key(key, rc_remote[key].version, rc_remote[key].value,
                                 rc_local, fetch_ok)
       IN  /\ rc_results' = Put(rc_results, key, res.out)
           /\ rc_fetched' = IF res.fetched THEN rc_fetched \cup {key} ELSE rc_fetched
    /\ UNCHANGED <<rc_vss, rc_local, rc_remote, rc_pc, rc_cache,
                   monitor_vars, manager_vars, scan_vars, failed_vars, more_vars>>

\* variant: a result that is an error is passed over and the rest is installed
ReadAllCollectSkipsErrors ==
    /\ rc_pc = "listed"
    /\ DOMAIN rc_results = DOMAIN rc_remote
    /\ rc_pc' = "done"
    /\ rc_cache' =
          [k \in (DOMAIN rc_local)
                 \cup {x \in DOMAIN rc_results : rc_results[x] = "some"} |->
              IF k \in DOMAIN rc_results /\ rc_results[k] = "some"
              THEN rc_remote[k].value
              ELSE rc_local[k]]
    /\ UNCHANGED <<rc_vss, rc_local, rc_remote, rc_results, rc_fetched,
                   monitor_vars, manager_vars, scan_vars, failed_vars, more_vars>>

\* the loop over the results: `result?`, then map.set_data(key, value, None)
ReadAllCollect ==
    /\ rc_pc = "listed"
    /\ DOMAIN rc_results = DOMAIN rc_remote
    /\ IF \E k \in DOMAIN rc_results : rc_results[k] = "err"
       THEN /\ rc_pc' = "failed"
            /\ UNCHANGED rc_cache
       ELSE /\ rc_pc' = "done"
            /\ rc_cache' =
                  [k \in (DOMAIN rc_local)
                         \cup {x \in DOMAIN rc_results : rc_results[x] = "some"} |->
                      IF k \in DOMAIN rc_results /\ rc_results[k] = "some"
                      THEN rc_remote[k].value
                      ELSE rc_local[k]]
    /\ UNCHANGED <<rc_vss, rc_local, rc_remote, rc_results, rc_fetched,
                   monitor_vars, manager_vars, scan_vars, failed_vars, more_vars>>

MonitorIdle ==
    /\ vss_client = FALSE
    /\ vss_rejects = FALSE
    /\ local_store = EmptyMap
    /\ vss_store = EmptyMap
    /\ latest_update_id = EmptyMap
    /\ jobs = <<>>
    /\ returned = <<>>
    /\ acked = {}
    /\ failures = 0
    /\ notify_failures = 0
    /\ phase = "running"
    /\ stop = FALSE
    /\ loaded = EmptyMap
    /\ chain_monitor = "Some"

\* IndexedDbStorage::new calls read_all on what IndexedDB and the remote store hold
InitReconcile ==
    /\ MonitorIdle
    /\ ManagerIdle
    /\ MoreIdle
    /\ rc_vss \in BOOLEAN
    /\ rc_local \in MapsUpTo(LocalMaps, MaxReconKeys)
    /\ rc_remote \in MapsUpTo(RemoteMaps, MaxReconKeys)
    /\ Cardinality((DOMAIN rc_local) \cup (DOMAIN rc_remote)) <= MaxReconKeys
    /\ ~rc_vss => rc_remote = EmptyMap
    /\ rc_pc = "start"
    /\ rc_results = EmptyMap
    /\ rc_fetched = {}
    /\ rc_cache = EmptyMap
    /\ ScanIdle
    /\ FailedIdle

NextReconcile ==
    \/ ReadAllLocalOnly
    \/ \E ok \in BOOLEAN : ListKeyVersions(ok)
    \/ \E k \in ReconKeys, fetch_ok \in BOOLEAN : HandleVssKey(k, fetch_ok)
    \/ ReadAllCollect

SpecReconcile == InitReconcile /\ [][NextReconcile]_vars

\* the remote store lists a monitor and the channel manager of the node; the
\* local store holds at most one of them
TwoKeys == {MONITORS_PREFIX_KEY \o "aa_0_node", get_key(CHANNEL_MANAGER_KEY)}

RemoteOf(k) ==
    {Put(EmptyMap, k, [version |-> r, value |-> v]) :
        r \in 1..U32Max, v \in ValuesOf(k, "remote")}

InitReconcileTwo ==
    /\ MonitorIdle
    /\ ManagerIdle
    /\ MoreIdle
    /\ rc_vss = TRUE
    /\ rc_local \in {EmptyMap} \cup
                    UNION {{Put(EmptyMap, k, v) : v \in ValuesOf(k, "local")} : k \in TwoKeys}
    /\ rc_remote \in {Merge(a, b) :
                         a \in RemoteOf(MONITORS_PREFIX_KEY \o "aa_0_node"),
                         b \in RemoteOf(get_key(CHANNEL_MANAGER_KEY))}
    /\ rc_pc = "start"
    /\ rc_results = EmptyMap
    /\ rc_fetched = {}
    /\ rc_cache = EmptyMap
    /\ ScanIdle
    /\ FailedIdle

NextReconcileTwo ==
    \/ \E ok \in BOOLEAN : ListKeyVersions(ok)
    \/ \E k \in TwoKeys, fetch_ok \in BOOLEAN : HandleVssKey(k, fetch_ok)
    \/ ReadAllCollect

SpecReconcileTwo == InitReconcileTwo /\ [][NextReconcileTwo]_vars

(***************************************************************************)
(* read_channel_monitors                                                   *)
(***************************************************************************)
NodeId == "node"

\* monitor keys in the store: two channels of the node, one of another node
ScanKeys ==
    {MONITORS_PREFIX_KEY \o "aa_0_node",
     MONITORS_PREFIX_KEY \o "bb_1_node",
     MONITORS_PREFIX_KEY \o "aa_0_other"}

\* what precedes the node id in a monitor key
KeyFronts ==
    {MONITORS_PREFIX_KEY \o "aa_0_", MONITORS_PREFIX_KEY \o "bb_1_",
     MONITORS_PREFIX_KEY \o "aa_0_x",
     PAYMENT_INBOUND_PREFIX_KEY \o "00", PAYMENT_INBOUND_PREFIX_KEY \o "01",
     PAYMENT_OUTBOUND_PREFIX_KEY \o "00", PAYMENT_OUTBOUND_PREFIX_KEY \o "01"}

\* key.ends_with(suffix)
EndsWith(key, suffix) == \E front \in KeyFronts : key = front \o suffix

\* scan_keys(prefix, Some(suffix)): the keys with the prefix and the suffix
scan_keys(store, prefix, suffix) ==
    {k \in DOMAIN store : StartsWith(k, prefix) /\ EndsWith(k, suffix)}

\* a stored monitor: its bytes decode or not, and a decoded monitor has claimable
\* balances or none
MonitorRecords ==
    {[decodes |-> TRUE, balances |-> TRUE],
     [decodes |-> TRUE, balances |-> FALSE],
     [decodes |-> FALSE, balances |-> FALSE]}

\* variant: a record that fails to decode is left out and the fold goes on
FoldStepSkipsUndecodable(accum, key, record) ==
    IF record.decodes /\ record.balances
    THEN [err |-> FALSE, accum |-> Append(accum, key)]
    ELSE [err |-> FALSE, accum |-> accum]

\* variant: every decoded monitor is pushed, with or without claimable balances
FoldStepKeepsAll(accum, key, record) ==
    IF record.decodes
    THEN [err |-> FALSE, accum |-> Append(accum, key)]
    ELSE [err |-> TRUE, accum |-> accum]

\* the closure of try_fold on one scanned record
FoldStep(accum, key, record) ==
    IF record.decodes
    THEN IF record.balances
         THEN [err |-> FALSE, accum |-> Append(accum, key)]
         ELSE [err |-> FALSE, accum |-> accum]
    ELSE [err |-> TRUE, accum |-> accum]

\* storage.scan(MONITORS_PREFIX_KEY, Some(node_id)).await.map_err(..)?
ScanMonitors(ok) ==
    /\ rm_pc = "start"
    /\ IF ok
       THEN /\ rm_pc' = "folding"
            /\ rm_todo' = scan_keys(rm_store, MONITORS_PREFIX_KEY, NodeId)
            /\ UNCHANGED rm_result
       ELSE /\ rm_pc' = "done"
            /\ rm_result' = "Err"
            /\ UNCHANGED rm_todo
    /\ UNCHANGED <<rm_store, rm_acc, rm_list, monitor_vars, manager_vars,
                   recon_vars, failed_vars, more_vars>>

\* try_fold visits the next record of the HashMap, in no particular order
FoldMonitor(key) ==
    /\ rm_pc = "folding"
    /\ key \in rm_todo
    /\ LET step == FoldStep(rm_acc, key, rm_store[key])
       IN  IF step.err
           THEN /\ rm_pc' = "done"
                /\ rm_result' = "Err"
                /\ UNCHANGED <<rm_acc, rm_todo>>
           ELSE /\ rm_acc' = step.accum
                /\ rm_todo' = rm_todo \ {key}
                /\ UNCHANGED <<rm_pc, rm_result>>
    /\ UNCHANGED <<rm_store, rm_list, monitor_vars, manager_vars,
                   recon_vars, failed_vars, more_vars>>

\* Ok(res) once every record was visited
ReturnMonitors ==
    /\ rm_pc = "folding"
    /\ rm_todo = {}
    /\ rm_pc' = "done"
    /\ rm_result' = "Ok"
    /\ rm_list' = rm_acc
    /\ UNCHANGED <<rm_store, rm_todo, rm_acc, monitor_vars, manager_vars,
                   recon_vars, failed_vars, more_vars>>

InitReadMonitors ==
    /\ MonitorIdle
    /\ ManagerIdle
    /\ MoreIdle
    /\ ReconIdle
    /\ FailedIdle
    /\ rm_store \in UNION {[K -> MonitorRecords] : K \in SUBSET ScanKeys}
    /\ rm_pc = "start"
    /\ rm_todo = {}
    /\ rm_acc = <<>>
    /\ rm_result = "none"
    /\ rm_list = <<>>

NextReadMonitors ==
    \/ \E ok \in BOOLEAN : ScanMonitors(ok)
    \/ \E k \in ScanKeys : FoldMonitor(k)
    \/ ReturnMonitors

SpecReadMonitors == InitReadMonitors /\ [][NextReadMonitors]_vars

\* a node identifier that ends with the identifier of the reading node
LongNodeId == "x" \o NodeId

\* channel ids (txid_index) of the monitors
Channels == {"aa_0", "bb_1"}

\* the monitor key a persister with the node id writes for the channel:
\* get_key(format!("{MONITORS_PREFIX_KEY}{}_{}", txid, index))
MonitorKeyOf(channel, node_id) == MONITORS_PREFIX_KEY \o channel \o "_" \o node_id

\* the store shared with the other persister, whose monitor of the first
\* channel is stored too
SharedScanKeys == ScanKeys \cup {MonitorKeyOf("aa_0", LongNodeId)}

InitSharedStore ==
    /\ MonitorIdle
    /\ ManagerIdle
    /\ MoreIdle
    /\ ReconIdle
    /\ FailedIdle
    /\ rm_store \in UNION {[K -> MonitorRecords] : K \in SUBSET SharedScanKeys}
    /\ rm_pc = "start"
    /\ rm_todo = {}
    /\ rm_acc = <<>>
    /\ rm_result = "none"
    /\ rm_list = <<>>

NextSharedStore ==
    \/ \E ok \in BOOLEAN : ScanMonitors(ok)
    \/ \E k \in SharedScanKeys : FoldMonitor(k)
    \/ ReturnMonitors

SpecSharedStore == InitSharedStore /\ [][NextSharedStore]_vars

(***************************************************************************)
(* persist / set / get / clear of the failed spendable outputs             *)
(***************************************************************************)
MaxFoCalls == 2

Descriptors == {"A", "B"}

\* the lists passed to one persist_failed_spendable_outputs call
DescriptorLists == {<<d>> : d \in Descriptors} \cup {<<"A", "B">>}

\* the lists passed to set_failed_spendable_outputs
SetLists == {<<"B", "A">>}

\* desc.encode().to_hex()
ToHex(desc) == "hex:" \o desc

\* Vec::from_hex and SpendableOutputDescriptor::read: the descriptor of a hex string
FromHex(hex) == CHOOSE d \in Descriptors : ToHex(d) = hex

\* failed.into_iter().map(|desc| desc.encode().to_hex()).collect()
ToHexAll(descriptors) == [i \in 1..Len(descriptors) |-> ToHex(descriptors[i])]

\* the loop of get_failed_spendable_outputs over the stored strings
FromHexAll(strings) == [i \in 1..Len(strings) |-> FromHex(strings[i])]

\* variant: the new descriptors are stored in place of the ones read
ExtendDescriptorsReplaces(descriptors, failed_hex) == failed_hex

\* descriptors.extend(failed_hex)
ExtendDescriptors(descriptors, failed_hex) == descriptors \o failed_hex

\* no get result, after an operation that changed the key (last, with its
\* descriptors) or one that left it as it was
NoGotAfter(changed, last, arg) ==
    IF changed
    THEN [NoGot EXCEPT !.last = last, !.arg = arg]
    ELSE [NoGot EXCEPT !.last = fo_got.last, !.arg = fo_got.arg]

\* a call on the key is between its read and its write
FoCallRunning == \E i \in DOMAIN fo_calls : fo_calls[i].pc = "write"

\* persist_failed_spendable_outputs up to `storage.get_data(&key).await?`
PersistFailedRead(failed, ok) ==
    /\ Len(fo_calls) < MaxFoCalls
    /\ fo_calls' = Append(fo_calls,
          [pc |-> IF ok THEN "write" ELSE "returned",
           failed |-> failed,
           descriptors |-> fo_store.list,
           read_after |-> fo_got.last,
           result |-> IF ok THEN "pending" ELSE "Err"])
    /\ fo_sequential' = (fo_sequential /\ ~FoCallRunning)
    /\ fo_got' = NoGotAfter(FALSE, "none", <<>>)
    /\ UNCHANGED <<fo_store, fo_expected, monitor_vars, manager_vars,
                   recon_vars, scan_vars, more_vars>>

\* the rest of the call: to_hex, extend, storage.set_data(key, descriptors, None)?
PersistFailedWrite(i, ok) ==
    /\ i \in DOMAIN fo_calls
    /\ fo_calls[i].pc = "write"
    /\ fo_calls' = [fo_calls EXCEPT ![i] =
                      [@ EXCEPT !.pc = "returned",
                                !.result = IF ok THEN "Ok" ELSE "Err"]]
    /\ IF ok
       THEN /\ fo_store' = [present |-> TRUE,
                            list |-> ExtendDescriptors(fo_calls[i].descriptors,
                                                       ToHexAll(fo_calls[i].failed))]
            /\ fo_expected' = fo_expected \o fo_calls[i].failed
       ELSE UNCHANGED <<fo_store, fo_expected>>
    /\ fo_got' = NoGotAfter(ok,
                            IF fo_calls[i].read_after = "clear" /\ fo_got.last = "clear"
                            THEN "persist_after_clear" ELSE "persist",
                            fo_calls[i].failed)
    /\ UNCHANGED <<fo_sequential, monitor_vars, manager_vars,
                   recon_vars, scan_vars, more_vars>>

\* variant: the descriptors are added to the stored list
SetFailedSpendableOutputsExtends(descriptors, ok) ==
    /\ IF ok
       THEN /\ fo_store' = [present |-> TRUE,
                            list |-> fo_store.list \o ToHexAll(descriptors)]
            /\ fo_expected' = descriptors
       ELSE UNCHANGED <<fo_store, fo_expected>>
    /\ fo_sequential' = (fo_sequential /\ ~FoCallRunning)
    /\ fo_got' = NoGotAfter(ok, "set", descriptors)
    /\ UNCHANGED <<fo_calls, monitor_vars, manager_vars,
                   recon_vars, scan_vars, more_vars>>

\* set_failed_spendable_outputs(descriptors)
SetFailedSpendableOutputs(descriptors, ok) ==
    /\ IF ok
       THEN /\ fo_store' = [present |-> TRUE, list |-> ToHexAll(descriptors)]
            /\ fo_expected' = descriptors
       ELSE UNCHANGED <<fo_store, fo_expected>>
    /\ fo_sequential' = (fo_sequential /\ ~FoCallRunning)
    /\ fo_got' = NoGotAfter(ok, "set", descriptors)
    /\ UNCHANGED <<fo_calls, monitor_vars, manager_vars,
                   recon_vars, scan_vars, more_vars>>

\* clear_failed_spendable_outputs(): storage.delete(&[key])
ClearFailedSpendableOutputs(ok) ==
    /\ IF ok
       THEN /\ fo_store' = [present |-> FALSE, list |-> <<>>]
            /\ fo_expected' = <<>>
       ELSE UNCHANGED <<fo_store, fo_expected>>
    /\ fo_sequential' = (fo_sequential /\ ~FoCallRunning)
    /\ fo_got' = NoGotAfter(ok, "clear", <<>>)
    /\ UNCHANGED <<fo_calls, monitor_vars, manager_vars,
                   recon_vars, scan_vars, more_vars>>

\* get_failed_spendable_outputs(): the stored hex strings, decoded in order
GetFailedSpendableOutputs(ok) ==
    /\ fo_got' = [result |-> IF ok THEN "Ok" ELSE "Err",
                  list |-> IF ok THEN FromHexAll(fo_store.list) ELSE <<>>,
                  expected |-> fo_expected,
                  quiet |-> fo_sequential /\ ~FoCallRunning,
                  last |-> fo_got.last, arg |-> fo_got.arg]
    /\ UNCHANGED <<fo_store, fo_calls, fo_expected, fo_sequential,
                   monitor_vars, manager_vars, recon_vars, scan_vars, more_vars>>

InitFailedOutputs ==
    /\ MonitorIdle
    /\ ManagerIdle
    /\ MoreIdle
    /\ ReconIdle
    /\ ScanIdle
    /\ FailedIdle

NextFailedOutputs ==
    \/ \E failed \in DescriptorLists, ok \in BOOLEAN : PersistFailedRead(failed, ok)
    \/ \E i \in 1..MaxFoCalls, ok \in BOOLEAN : PersistFailedWrite(i, ok)
    \/ \E descriptors \in SetLists, ok \in BOOLEAN :
          SetFailedSpendableOutputs(descriptors, ok)
    \/ \E ok \in BOOLEAN : ClearFailedSpendableOutputs(ok)
    \/ \E ok \in BOOLEAN : GetFailedSpendableOutputs(ok)

SpecFailedOutputs == InitFailedOutputs /\ [][NextFailedOutputs]_vars

(***************************************************************************)
(* persist_payment_info / read_payment_info / list_payment_info           *)
(***************************************************************************)
\* the persisters that share the storage, by node id
NodeIds == {"node", "other"}

\* payment hashes (one byte standing for the 32)
PaymentHashes == {<<0>>, <<1>>}

\* the payments of each node: two of the first node, and one of the other node
\* with a hash the first node has too
NodePayments == {<<"node", <<0>>>>, <<"node", <<1>>>>, <<"other", <<0>>>>}

\* PaymentInfo values, told apart by their HTLCStatus
PaymentInfos == {"Pending", "Succeeded"}

\* payment_hash.to_hex()
HashToHex(payment_hash) == IF payment_hash[1] = 0 THEN "00" ELSE "01"

\* FromHex::from_hex(payment_hash_str).expect("key should be a sha256 hash")
HashFromHex(str) == CHOOSE h \in PaymentHashes : HashToHex(h) = str

\* format!("{}_{}", key, self.node_id) of the persister of node_id
PersisterKey(node_id, key) == key \o "_" \o node_id

\* variant: both directions share the inbound prefix
payment_key_one_prefix(inbound, payment_hash) ==
    PAYMENT_INBOUND_PREFIX_KEY \o HashToHex(payment_hash)

payment_key(inbound, payment_hash) ==
    IF inbound
    THEN PAYMENT_INBOUND_PREFIX_KEY \o HashToHex(payment_hash)
    ELSE PAYMENT_OUTBOUND_PREFIX_KEY \o HashToHex(payment_hash)

\* the JSON value set_data stores for a PaymentInfo
PaymentToJson(info) == [type |-> "PaymentInfo", status |-> info]

\* get_data::<PaymentInfo>(key) followed by .ok().flatten()
read_payment_info(store, node_id, payment_hash, inbound) ==
    LET key == PersisterKey(node_id, payment_key(inbound, payment_hash))
    IN  IF key \in DOMAIN store /\ store[key].type = "PaymentInfo"
        THEN store[key].status
        ELSE "None"

\* key.trim_start_matches(prefix).trim_end_matches(&suffix)
TrimMatches(key, prefix, suffix) ==
    CHOOSE str \in {HashToHex(h) : h \in PaymentHashes} : key = prefix \o str \o suffix

\* list_payment_info: the scanned records with their keys turned into hashes, one
\* entry per scanned key
list_payment_info(store, node_id, inbound) ==
    LET prefix == IF inbound THEN PAYMENT_INBOUND_PREFIX_KEY
                  ELSE PAYMENT_OUTBOUND_PREFIX_KEY
        suffix == "_" \o node_id
        map == scan_keys(store, prefix, suffix)
    IN  [key \in map |->
            [hash |-> HashFromHex(TrimMatches(key, prefix, suffix)),
             info |-> store[key].status]]

\* persist_payment_info(payment_hash, payment_info, inbound) by the persister of
\* node_id: one set_data on the payment key, whose error is returned
PersistPaymentInfo(node_id, payment_hash, payment_info, inbound, ok) ==
    LET key == PersisterKey(node_id, payment_key(inbound, payment_hash))
        id == <<node_id, inbound, payment_hash>>
    IN  /\ pay_store' = IF ok THEN Put(pay_store, key, PaymentToJson(payment_info))
                        ELSE pay_store
        /\ pay_last' = IF ok THEN Put(pay_last, id, payment_info) ELSE pay_last
        /\ pay_overwritten' =
              (pay_overwritten \/ (ok /\ id \in DOMAIN pay_last
                                      /\ pay_last[id] # payment_info))
        /\ pay_got' = NoPayGot
        /\ UNCHANGED <<monitor_vars, manager_vars, recon_vars, scan_vars, failed_vars,
                       idb_vars>>

ReadPaymentInfo(node_id, payment_hash, inbound) ==
    /\ pay_got' = [op |-> "read", node_id |-> node_id, hash |-> payment_hash,
                   inbound |-> inbound,
                   value |-> read_payment_info(pay_store, node_id, payment_hash, inbound)]
    /\ UNCHANGED <<pay_store, pay_last, pay_overwritten,
                   monitor_vars, manager_vars, recon_vars, scan_vars, failed_vars,
                   idb_vars>>

ListPaymentInfo(node_id, inbound) ==
    /\ pay_got' = [op |-> "list", node_id |-> node_id, inbound |-> inbound,
                   list |-> list_payment_info(pay_store, node_id, inbound)]
    /\ UNCHANGED <<pay_store, pay_last, pay_overwritten,
                   monitor_vars, manager_vars, recon_vars, scan_vars, failed_vars,
                   idb_vars>>

\* MutinyNodePersister::new for each node over one empty storage
InitPayments ==
    /\ MonitorIdle
    /\ ManagerIdle
    /\ ReconIdle
    /\ ScanIdle
    /\ FailedIdle
    /\ PaymentIdle
    /\ IdbIdle

NextPayments ==
    \/ \E p \in NodePayments, info \in PaymentInfos,
          inbound \in BOOLEAN, ok \in BOOLEAN :
          PersistPaymentInfo(p[1], p[2], info, inbound, ok)
    \/ \E p \in NodePayments, inbound \in BOOLEAN :
          ReadPaymentInfo(p[1], p[2], inbound)
    \/ \E n \in NodeIds, inbound \in BOOLEAN : ListPaymentInfo(n, inbound)

SpecPayments == InitPayments /\ [][NextPayments]_vars

(***************************************************************************)
(* IndexedDbStorage: set / delete / get on the cache, the background       *)
(* operations on IndexedDB, and the reload of the cache                    *)
(***************************************************************************)
MaxIdbCalls == 3

NETWORK_GRAPH_KEY == "network_graph"

\* a key of the wallet and a monitor key
IdbKeys == {"test_key", MONITORS_PREFIX_KEY \o "aa_0_node"}

\* serde_json::to_value(value) of the values given to set
IdbValues == {"v1", "v2"}

\* used_once(key): the keys that are read once and kept out of the cache
used_once(key) ==
    \/ key = NETWORK_GRAPH_KEY
    \/ StartsWith(key, MONITORS_PREFIX_KEY)
    \/ StartsWith(key, CHANNEL_MANAGER_KEY)

\* JsValue::from_serde(&data)
ToJsValue(data) == [js |-> data]

\* value.into_serde()
FromJsValue(value) == value.js

\* map.get(key).cloned() on the cache
MemoryGet(memory, key) == IF key \in DOMAIN memory THEN memory[key] ELSE "None"

\* map.remove(key) for each of the keys
RemoveKeys(map, keys) == [k \in (DOMAIN map) \ keys |-> map[k]]

\* read_all without a remote store: every record of the object store but the
\* network graph, turned back into JSON
ReadAllMap(db) == [k \in (DOMAIN db) \ {NETWORK_GRAPH_KEY} |-> FromJsValue(db[k])]

\* self.memory.try_write(): fails when a reader or a writer holds the lock
TryWrite(lock) == lock = "free"

\* self.memory.try_read(): fails when a writer holds the lock
TryRead(lock) == lock # "write"

\* set(key, value): the save is spawned; then, unless the key is read once, the
\* cache lock is taken with try_write and the value inserted, or the error of
\* try_write returned
IdbSet(key, value) ==
    /\ idb_calls < MaxIdbCalls
    /\ idb_calls' = idb_calls + 1
    /\ idb_queue' = Append(idb_queue, [op |-> "put", keys |-> {key}, data |-> value,
                                     waiter |-> FALSE])
    /\ IF used_once(key)
       THEN UNCHANGED idb_memory /\ idb_last' = Put(idb_last, key, value)
       ELSE IF TryWrite(idb_lock)
       THEN idb_memory' = Put(idb_memory, key, value) /\ idb_last' = Put(idb_last, key, value)
       ELSE UNCHANGED <<idb_memory, idb_last>>
    /\ idb_reloaded' = NoReload
    /\ idb_got' = NoIdbGot
    /\ UNCHANGED <<idb_db, idb_failed, idb_raced, idb_lock, monitor_vars, manager_vars,
                   recon_vars, scan_vars, failed_vars, payment_vars>>

\* variant: the cache keeps the deleted keys
IdbDeleteKeepsMemory(keys) ==
    /\ idb_calls < MaxIdbCalls
    /\ idb_calls' = idb_calls + 1
    /\ idb_queue' = Append(idb_queue, [op |-> "delete", keys |-> keys, data |-> "None",
                                     waiter |-> FALSE])
    /\ idb_last' = [k \in (DOMAIN idb_last) \cup keys |->
                       IF k \in keys THEN "None" ELSE idb_last[k]]
    /\ idb_reloaded' = NoReload
    /\ idb_got' = NoIdbGot
    /\ UNCHANGED <<idb_memory, idb_db, idb_failed, idb_raced, idb_lock, monitor_vars,
                   manager_vars, recon_vars, scan_vars, failed_vars, payment_vars>>

\* delete(keys): the deletion is spawned; then the cache lock is taken with
\* try_write and the keys removed, or the error of try_write returned
IdbDelete(keys) ==
    /\ idb_calls < MaxIdbCalls
    /\ idb_calls' = idb_calls + 1
    /\ idb_queue' = Append(idb_queue, [op |-> "delete", keys |-> keys, data |-> "None",
                                     waiter |-> FALSE])
    /\ IF TryWrite(idb_lock)
       THEN /\ idb_memory' = RemoveKeys(idb_memory, keys)
            /\ idb_last' = [k \in (DOMAIN idb_last) \cup keys |->
                               IF k \in keys THEN "None" ELSE idb_last[k]]
       ELSE UNCHANGED <<idb_memory, idb_last>>
    /\ idb_reloaded' = NoReload
    /\ idb_got' = NoIdbGot
    /\ UNCHANGED <<idb_db, idb_failed, idb_raced, idb_lock, monitor_vars, manager_vars,
                   recon_vars, scan_vars, failed_vars, payment_vars>>

\* variant: a read-once key stays in the cache after a get
get_keeps_read_once(memory, lock, key, decodes) ==
    IF ~TryRead(lock) THEN [result |-> "Err", value |-> "None", memory |-> memory]
    ELSE IF key \notin DOMAIN memory
    THEN [result |-> "Ok", value |-> "None", memory |-> memory]
    ELSE IF ~decodes THEN [result |-> "Err", value |-> "None", memory |-> memory]
    ELSE [result |-> "Ok", value |-> memory[key], memory |-> memory]

\* get::<T>(key): try_read and the lookup; the value is deserialized as T; a
\* read-once key is then removed under try_write; the result and the cache left
get(memory, lock, key, decodes) ==
    IF ~TryRead(lock) THEN [result |-> "Err", value |-> "None", memory |-> memory]
    ELSE IF key \notin DOMAIN memory
    THEN [result |-> "Ok", value |-> "None", memory |-> memory]
    ELSE IF ~decodes THEN [result |-> "Err", value |-> "None", memory |-> memory]
    ELSE IF used_once(key)
    THEN IF TryWrite(lock)
         THEN [result |-> "Ok", value |-> memory[key],
               memory |-> RemoveKeys(memory, {key})]
         ELSE [result |-> "Err", value |-> "None", memory |-> memory]
    ELSE [result |-> "Ok", value |-> memory[key], memory |-> memory]

\* a get call; decodes says whether the cached value deserializes as the type the
\* caller asks for
IdbGet(key, decodes) ==
    /\ LET res == get(idb_memory, idb_lock, key, decodes)
       IN  /\ idb_memory' = res.memory
           /\ idb_got' = [op |-> "get", key |-> key, decodes |-> decodes,
                          result |-> res.result, value |-> res.value]
    /\ UNCHANGED <<idb_db, idb_queue, idb_calls, idb_last, idb_failed, idb_raced,
                   idb_reloaded, idb_lock, monitor_vars, manager_vars, recon_vars,
                   scan_vars, failed_vars, payment_vars>>

\* what a background operation that ran to its end leaves in the object store
ApplyToDb(db, task, keys) ==
    IF task.op = "put"
    THEN [k \in (DOMAIN db) \cup keys |->
             IF k \in keys THEN ToJsValue(task.data) ELSE db[k]]
    ELSE RemoveKeys(db, keys)

\* set_async(key, value) up to `Self::save_to_indexed_db(..).await?`: the caller
\* waits for the save (taken to start after the tasks spawned before it)
IdbSetAsync(key, value) ==
    /\ idb_calls < MaxIdbCalls
    /\ idb_calls' = idb_calls + 1
    /\ idb_queue' = Append(idb_queue, [op |-> "put", keys |-> {key}, data |-> value,
                                     waiter |-> TRUE])
    /\ idb_reloaded' = NoReload
    /\ idb_got' = NoIdbGot
    /\ UNCHANGED <<idb_memory, idb_db, idb_last, idb_failed, idb_raced, idb_lock,
                   monitor_vars, manager_vars, recon_vars, scan_vars, failed_vars,
                   payment_vars>>

\* the rest of set_async once its save has returned: the error of the save, or,
\* unless the key is read once, try_write and the insert
SetAsyncInserts(task, ok) ==
    /\ task.waiter
    /\ ok
    /\ \A k \in task.keys : ~used_once(k)
    /\ TryWrite(idb_lock)

\* the oldest spawned task runs save_to_indexed_db / delete_from_indexed_db: the
\* tasks are polled in the order they were spawned and their read-write
\* transactions on the one object store run in the order they were created. A
\* task that ends with an error (which is logged) has been applied to any part
\* of its keys
IdbTaskDone(ok, applied) ==
    /\ idb_queue # <<>>
    /\ LET task == Head(idb_queue)
       IN  /\ applied \subseteq task.keys
           /\ ok => applied = task.keys
           /\ idb_db' = ApplyToDb(idb_db, task, applied)
           /\ idb_failed' = IF ok THEN idb_failed ELSE idb_failed \cup task.keys
           /\ IF SetAsyncInserts(task, ok)
              THEN /\ idb_memory' = [k \in (DOMAIN idb_memory) \cup task.keys |->
                                        IF k \in task.keys THEN task.data
                                        ELSE idb_memory[k]]
                   /\ idb_last' = [k \in (DOMAIN idb_last) \cup task.keys |->
                                      IF k \in task.keys THEN task.data ELSE idb_last[k]]
              ELSE UNCHANGED <<idb_memory, idb_last>>
    /\ idb_queue' = Tail(idb_queue)
    /\ idb_got' = NoIdbGot
    /\ UNCHANGED <<idb_calls, idb_raced, idb_reloaded, idb_lock,
                   monitor_vars, manager_vars, recon_vars, scan_vars, failed_vars,
                   payment_vars>>

\* reload_from_indexed_db: the cache is replaced by what read_all finds (with the
\* cache lock free; else the error of try_write is returned and nothing changes)
ReloadFromIndexedDb ==
    /\ TryWrite(idb_lock)
    /\ idb_memory' = ReadAllMap(idb_db)
    /\ idb_got' = NoIdbGot
    /\ idb_reloaded' = [op |-> "reload", settled |-> (idb_queue = <<>>),
                        before |-> idb_memory, raced |-> idb_raced]
    /\ idb_raced' = IF idb_queue = <<>> THEN {}
                    ELSE idb_raced \cup UNION {idb_queue[i].keys : i \in DOMAIN idb_queue}
    /\ UNCHANGED <<idb_db, idb_queue, idb_calls, idb_last, idb_failed, idb_lock,
                   monitor_vars, manager_vars, recon_vars, scan_vars, failed_vars,
                   payment_vars>>

InitIndexedDb ==
    /\ MonitorIdle
    /\ ManagerIdle
    /\ ReconIdle
    /\ ScanIdle
    /\ FailedIdle
    /\ PaymentIdle
    /\ IdbIdle

NextIndexedDb ==
    \/ \E k \in IdbKeys, v \in IdbValues : IdbSet(k, v)
    \/ \E keys \in (SUBSET IdbKeys) \ {{}} : IdbDelete(keys)
    \/ \E k \in IdbKeys : IdbGet(k, TRUE)
    \/ \E ok \in BOOLEAN, applied \in SUBSET IdbKeys : IdbTaskDone(ok, applied)
    \/ ReloadFromIndexedDb

SpecIndexedDb == InitIndexedDb /\ [][NextIndexedDb]_vars

\* the cache with set_async, and gets of values that deserialize or not
NextIndexedDbCache ==
    \/ \E k \in IdbKeys : IdbSet(k, "v1")
    \/ \E k \in IdbKeys : IdbSetAsync(k, "v2")
    \/ \E k \in IdbKeys, decodes \in BOOLEAN : IdbGet(k, decodes)
    \/ \E applied \in SUBSET IdbKeys : IdbTaskDone(TRUE, applied)
    \/ ReloadFromIndexedDb

SpecIndexedDbCache == InitIndexedDb /\ [][NextIndexedDbCache]_vars

\* a guard of the cache lock is alive somewhere else: a reader or a writer
IdbLockTaken(mode) ==
    /\ idb_lock = "free"
    /\ idb_lock' = mode
    /\ UNCHANGED <<idb_memory, idb_db, idb_queue, idb_calls, idb_last, idb_failed,
                   idb_raced, idb_reloaded, idb_got, monitor_vars, manager_vars,
                   recon_vars, scan_vars, failed_vars, payment_vars>>

\* the guard is dropped
IdbLockReleased ==
    /\ idb_lock # "free"
    /\ idb_lock' = "free"
    /\ UNCHANGED <<idb_memory, idb_db, idb_queue, idb_calls, idb_last, idb_failed,
                   idb_raced, idb_reloaded, idb_got, monitor_vars, manager_vars,
                   recon_vars, scan_vars, failed_vars, payment_vars>>

\* the calls on the cache while its lock may be held
NextIndexedDbLock ==
    \/ \E k \in IdbKeys, v \in IdbValues : IdbSet(k, v)
    \/ \E k \in IdbKeys, v \in IdbValues : IdbSetAsync(k, v)
    \/ \E keys \in (SUBSET IdbKeys) \ {{}} : IdbDelete(keys)
    \/ \E k \in IdbKeys : IdbGet(k, TRUE)
    \/ \E applied \in SUBSET IdbKeys : IdbTaskDone(TRUE, applied)
    \/ \E mode \in {"read", "write"} : IdbLockTaken(mode)
    \/ IdbLockReleased

SpecIndexedDbLock == InitIndexedDb /\ [][NextIndexedDbLock]_vars

(***************************************************************************)
(* Stopping the node while Monitor Persist Jobs are running                *)
(***************************************************************************)
\* MutinyWallet::stop / NodeManager::stop: the shared flag is set
StopNode ==
    /\ phase = "running"
    /\ ~stop
    /\ stop' = TRUE
    /\ UNCHANGED <<chain_monitor, vss_client, vss_rejects, local_store, vss_store,
                   latest_update_id, jobs, returned, acked, failures, notify_failures,
                   phase, loaded, manager_vars, aux_vars>>

NextStop ==
    \/ Next
    \/ StopNode

SpecStop == Init /\ [][NextStop]_vars

(***************************************************************************)
(* Fair scheduling of the jobs: the executor polls every spawned task, the *)
(* timers fire and every store operation settles                           *)
(***************************************************************************)
JobStep(i) ==
    \/ JobStartAttempt(i)
    \/ \E ok \in BOOLEAN : LocalWrite(i, ok)
    \/ \E ok \in BOOLEAN : RemotePut(i, ok)
    \/ JobAttemptDone(i)
    \/ \E cb_ok \in BOOLEAN : JobNotify(i, cb_ok)

FairSpec == Spec /\ \A i \in 1..MaxJobs : WF_vars(JobStep(i))

(***************************************************************************)
(* Properties                                                              *)
(***************************************************************************)
JobHasSucceeded(j) == j.first_ok > 0

\* C1: after a crash and the next start-up, the monitor loaded for a channel has an
\* update id at least that of every update acknowledged to the chain monitor
C1_AckedUpdateSurvivesRestart ==
    phase = "loaded" =>
        \A a \in acked :
            /\ a[1] \in DOMAIN loaded
            /\ get_monitor_version(loaded[a[1]]) >= a[2]

\* C2: a job reaches the completion callback only when the attempt that returned
\* success was confirmed by a store: the local store on the first attempt, the
\* remote store on a retry
C2_AckOnlyAfterStoreConfirmed ==
    \A i \in DOMAIN jobs :
        jobs[i].pc = "notify" =>
            IF jobs[i].is_retry
            THEN jobs[i].remote_res \in {"ok", "noop"}
            ELSE jobs[i].local_res = "ok"

\* C3: no step lowers the version of a monitor held by the local store or by the
\* remote store
C3_StoredVersionNeverDecreases ==
    [][ /\ \A k \in DOMAIN local_store :
            /\ k \in DOMAIN local_store'
            /\ get_monitor_version(local_store'[k]) >= get_monitor_version(local_store[k])
        /\ \A k \in DOMAIN vss_store :
            /\ k \in DOMAIN vss_store'
            /\ vss_store'[k].version >= vss_store[k].version ]_vars

\* C4: when two jobs on one key with versions v1 < v2 have both had their write
\* succeed, the remote store holds a version >= v2 for the key, and exactly v2
\* unless a third job carries a higher version
C4_RemoteHoldsHigherVersion ==
    vss_client =>
        \A i \in DOMAIN jobs, j \in DOMAIN jobs :
            ( /\ jobs[i].key = jobs[j].key
              /\ jobs[i].version < jobs[j].version
              /\ JobHasSucceeded(jobs[i])
              /\ JobHasSucceeded(jobs[j]) )
            => /\ jobs[j].key \in DOMAIN vss_store
               /\ vss_store[jobs[j].key].version >= jobs[j].version
               /\ (\A m \in DOMAIN jobs : jobs[m].version <= jobs[j].version)
                     => vss_store[jobs[j].key].version = jobs[j].version

C4_Witness ==
    /\ vss_client
    /\ Len(jobs) = 2
    /\ jobs[1].version < jobs[2].version
    /\ jobs[1].pc = "done"
    /\ jobs[2].pc = "done"
    /\ jobs[1].remote_res = "noop"
    /\ vss_store[jobs[2].key].version = jobs[2].version

\* C5: while the process runs, every spawned job eventually acknowledges and stops
C5_EveryJobEventuallyAcknowledged ==
    \A i \in 1..MaxJobs :
        [](i \in DOMAIN jobs
            => <>(phase # "running" \/ (i \in DOMAIN jobs /\ jobs[i].pc = "done")))

\* C6: the callback of a job fires only after its first successful attempt, fires
\* once, and the job makes no write attempt after that one
C6_CallbackOnceAfterFirstSuccess ==
    \A i \in DOMAIN jobs :
        /\ jobs[i].first_ok = 0 => jobs[i].acks = 0
        /\ jobs[i].first_ok > 0 =>
              /\ jobs[i].acks <= 1
              /\ jobs[i].attempts = jobs[i].first_ok

\* C7: once channel_monitor_updated has returned an error to a job, the job has no
\* storage write in flight, local or remote
C7_NotifyErrorStartsNoWrite ==
    \A i \in DOMAIN jobs :
        jobs[i].cb_errs > 0 =>
            /\ jobs[i].local_res # "pending"
            /\ jobs[i].remote_res # "pending"

\* C8: every persist_new_channel / update_persisted_channel call has returned
\* InProgress, with no write attempt of its job made when it returned, whatever
\* failures the stores have shown
C8_AlwaysInProgressBeforeAnyWrite ==
    /\ Len(returned) = Len(jobs)
    /\ \A c \in DOMAIN returned :
          /\ returned[c].status = InProgress
          /\ returned[c].attempts = 0

C8_Witness ==
    /\ Len(returned) = 2
    /\ failures > 0
    /\ \E i \in DOMAIN jobs : jobs[i].is_retry /\ jobs[i].attempts >= 2

\* C9: persist_manager calls made one after the other on a fresh persister: call i
\* builds the envelope with version i, a successful call leaves that envelope under
\* the manager key, and the counter is i when call i returns
C9_SequentialVersions ==
    (sequential /\ manager_init = 0) =>
        \A i \in DOMAIN calls :
            /\ calls[i].version = i
            /\ calls[i].key = "manager_node"
            /\ calls[i].pc = "returned" => calls[i].counter_at_return = i
            /\ (i = Len(calls) /\ calls[i].result = "Ok") =>
                  manager_store[calls[i].key].version = i

C9_Witness ==
    /\ sequential
    /\ manager_init = 0
    /\ Len(calls) = 3
    /\ \A i \in DOMAIN calls : calls[i].result = "Ok"
    /\ manager_store["manager_node"].version = 3
    /\ manager_version = 3

\* C10: however the calls interleave, the versions assigned to N calls started at
\* counter value c are pairwise distinct and are exactly c+1 .. c+N
C10_DistinctVersions ==
    /\ \A i \in DOMAIN calls, j \in DOMAIN calls :
          i # j => calls[i].version # calls[j].version
    /\ {calls[i].version : i \in DOMAIN calls}
          = (manager_init + 1)..(manager_init + Len(calls))

C10_Witness ==
    /\ ~sequential
    /\ manager_init > 0
    /\ Len(calls) = MaxCalls
    /\ \A i \in DOMAIN calls : calls[i].pc = "set_data"

\* C11 (as stated): a persist_manager call whose store write fails leaves the
\* counter as it was before the call, and the versions of the envelopes stored by
\* successive successful calls are consecutive
C11_FailedCallLeavesCounter ==
    sequential =>
        /\ \A i \in DOMAIN calls :
              (calls[i].pc = "returned" /\ calls[i].result = "Err")
                  => calls[i].counter_at_return = calls[i].version - 1
        /\ \A i \in DOMAIN calls, j \in DOMAIN calls :
              ( /\ i < j
                /\ calls[i].result = "Ok"
                /\ calls[j].result = "Ok"
                /\ \A m \in (i + 1)..(j - 1) : calls[m].result # "Ok" )
              => calls[j].version = calls[i].version + 1

\* C11 (amended): the counter advances by exactly 1 per persist_manager call,
\* whether its store write succeeds or fails; a failed call keeps the version it
\* took, so the versions of the envelopes stored by calls made one after the other
\* are strictly increasing, with one version skipped per failed call in between
C11_CounterAdvancesPerCall ==
    /\ manager_version = manager_init + Len(calls)
    /\ sequential =>
          /\ \A i \in DOMAIN calls :
                calls[i].pc = "returned" => calls[i].counter_at_return = calls[i].version
          /\ \A i \in DOMAIN calls, j \in DOMAIN calls :
                ( /\ i < j
                  /\ calls[i].result = "Ok"
                  /\ calls[j].result = "Ok"
                  /\ \A m \in (i + 1)..(j - 1) : calls[m].result # "Ok" )
                => calls[j].version = calls[i].version + (j - i)

C11_Witness ==
    /\ sequential
    /\ Len(calls) = 3
    /\ calls[1].result = "Ok"
    /\ calls[2].result = "Err"
    /\ calls[3].result = "Ok"
    /\ manager_store["manager_node"].version = calls[1].version + 2

\* C15: a put of a (key, version) pair that the remote store already holds, answered
\* by the store, leaves the store unchanged and gives the job's attempt a successful
\* remote result, so that the job goes on to acknowledge
C15_ResubmissionIsSuccess ==
    [][ \A i \in DOMAIN jobs :
          ( /\ i \in DOMAIN jobs'
            /\ jobs[i].remote_res = "pending"
            /\ jobs'[i].remote_res # "pending"
            /\ failures' = failures
            /\ jobs[i].key \in DOMAIN vss_store
            /\ vss_store[jobs[i].key] = [version |-> jobs[i].version,
                                         value |-> jobs[i].update_id] )
          => /\ vss_store' = vss_store
             /\ jobs'[i].remote_res \in {"ok", "noop"} ]_vars

\* C18: the storage version of a job is min(update id, u32::MAX): the update id
\* below the maximum, the maximum from there on, never the id's low 32 bits; the
\* two entry points derive the same version from the same update id
C18_VersionSaturates ==
    /\ \A i \in DOMAIN jobs :
          jobs[i].version = IF jobs[i].update_id < U32Max
                            THEN jobs[i].update_id
                            ELSE U32Max
    /\ \A u \in UpdateIds \cup {0} :
          MonitorVersion(u) = UpdatePersistedChannelVersion(u)

C18_Witness ==
    /\ Len(jobs) = 2
    /\ jobs[1].update_id < U32Max
    /\ jobs[1].version = jobs[1].update_id
    /\ jobs[2].update_id > U32Max
    /\ jobs[2].version = U32Max

\* C19: a read_channel_manager that loads a versioned envelope with version v leaves
\* the counter at v, the next persist_manager call builds version v + 1, and no
\* call builds a version at or below the one the key held when the node started
C19_CounterContinues ==
    /\ \A r \in DOMAIN reads :
          (reads[r].path = "versioned" /\ reads[r].result = "Ok") =>
              /\ reads[r].stored_format = "versioned"
              /\ reads[r].counter_after = reads[r].stored_version
              /\ ( /\ Len(calls) > reads[r].ncalls
                   /\ (r = Len(reads) \/ reads[r + 1].ncalls > reads[r].ncalls) )
                 => calls[reads[r].ncalls + 1].version = reads[r].stored_version + 1
    /\ \A i \in DOMAIN calls :
          /\ reads # <<>>
          /\ reads[1].stored_format = "versioned"
                => calls[i].version > reads[1].stored_version

C19_Witness ==
    /\ Len(reads) = 1
    /\ reads[1].path = "versioned"
    /\ reads[1].result = "Ok"
    /\ reads[1].stored_version = 2
    /\ manager_version = 3
    /\ Len(calls) = 1
    /\ calls[1].result = "Ok"
    /\ manager_store["manager_node"].version = 3

\* C20: on a legacy unversioned blob read_channel_manager succeeds with
\* is_restarting and leaves the counter at 0; the persist_manager that follows
\* builds version 1 and, once stored, a further read_channel_manager takes the
\* versioned path, with is_restarting and the counter at 1
C20_LegacyUpgrade ==
    ( /\ reads # <<>>
      /\ reads[1].stored_format = "legacy"
      /\ reads[1].stored_payload = "ok" ) =>
        /\ reads[1].result = "Ok"
        /\ reads[1].path = "legacy"
        /\ reads[1].is_restarting
        /\ reads[1].counter_after = 0
        /\ ( /\ Len(calls) >= 1
             /\ (Len(reads) = 1 \/ reads[2].ncalls >= 1) )
           => calls[1].version = 1
        /\ ( /\ Len(reads) = 2
             /\ reads[2].ncalls = 1
             /\ reads[2].pending = 0
             /\ calls[1].result = "Ok" )
           => /\ reads[2].path = "versioned"
              /\ reads[2].result = "Ok"
              /\ reads[2].is_restarting
              /\ reads[2].counter_after = 1

C20_Witness ==
    /\ Len(reads) = 2
    /\ reads[1].path = "legacy"
    /\ reads[1].result = "Ok"
    /\ reads[1].counter_after = 0
    /\ Len(calls) = 1
    /\ calls[1].result = "Ok"
    /\ reads[2].path = "versioned"
    /\ reads[2].counter_after = 1
    /\ reads[2].is_restarting
    /\ manager_store["manager_node"].format = "versioned"

\* C12: for a channel-manager key held locally with envelope version L and listed
\* remotely with version R, the remote payload being a versioned envelope, the cache
\* built by reconciliation holds the remote value if and only if R > L, and the
\* local value otherwise
C12_ManagerRemoteIffNewer ==
    rc_pc = "done" =>
        \A k \in (DOMAIN rc_local) \cap (DOMAIN rc_remote) :
            ( /\ KeyCategory(k) = "manager"
              /\ rc_local[k].kind = "VersionedValue"
              /\ rc_remote[k].value.kind = "VersionedValue" )
            => /\ rc_cache[k] = rc_remote[k].value
                    <=> rc_remote[k].version > rc_local[k].version
               /\ rc_cache[k] # rc_remote[k].value => rc_cache[k] = rc_local[k]

C12_Witness ==
    /\ rc_pc = "done"
    /\ "manager_node" \in (DOMAIN rc_local) \cap (DOMAIN rc_remote)
    /\ rc_local["manager_node"].kind = "VersionedValue"
    /\ rc_remote["manager_node"].version > rc_local["manager_node"].version
    /\ rc_cache["manager_node"] = rc_remote["manager_node"].value
    /\ rc_cache["manager_node"].kind = "VersionedValue"

\* C13: for a monitor key held locally with update id L and listed remotely with
\* version R, the cache holds the remote object when R > L; when R <= L it holds
\* the local value and the remote object was not fetched; L is compared in full,
\* update ids above the 32-bit range included
C13_MonitorRemoteOnlyIfNewer ==
    \A k \in (DOMAIN rc_local) \cap (DOMAIN rc_remote) :
        (KeyCategory(k) = "monitor" /\ rc_local[k].kind = "bytes") =>
            LET L == rc_local[k].version
                R == rc_remote[k].version
            IN  /\ R <= L => k \notin rc_fetched
                /\ rc_pc = "done" =>
                      /\ R > L => rc_cache[k] = rc_remote[k].value
                      /\ R <= L => rc_cache[k] = rc_local[k]

C13_Witness ==
    /\ rc_pc = "done"
    /\ \E k \in (DOMAIN rc_local) \cap (DOMAIN rc_remote) :
          /\ KeyCategory(k) = "monitor"
          /\ rc_local[k].kind = "bytes"
          /\ rc_local[k].version > U32Max
          /\ rc_remote[k].version = U32Max
          /\ rc_cache[k] = rc_local[k]
          /\ k \notin rc_fetched

\* C14 (as stated): every key listed remotely and without a local value is in the
\* cache with the remote value, whatever its category
C14_AbsentKeyTakenFromRemote ==
    rc_pc = "done" =>
        \A k \in (DOMAIN rc_remote) \ (DOMAIN rc_local) :
            /\ k \in DOMAIN rc_cache
            /\ rc_cache[k] = rc_remote[k].value

\* C14 (amended): a key listed remotely and without a local value is in the cache
\* with the remote value when it is the node list, the device lock or a monitor
\* key, and when it is a channel-manager key whose remote payload is a versioned
\* envelope; a manager key with any other payload and a key of any other category
\* stay out of the cache, the latter without being fetched
C14_AbsentKeyByCategory ==
    \A k \in (DOMAIN rc_remote) \ (DOMAIN rc_local) :
        LET c == KeyCategory(k)
            taken == k \in DOMAIN rc_cache /\ rc_cache[k] = rc_remote[k].value
        IN  /\ c = "other" => k \notin rc_fetched
            /\ rc_pc = "done" =>
                  /\ c \in {"nodes", "lock", "monitor"} => taken
                  /\ c = "manager" =>
                        IF rc_remote[k].value.kind = "VersionedValue"
                        THEN taken
                        ELSE k \notin DOMAIN rc_cache
                  /\ c = "other" => k \notin DOMAIN rc_cache

C14_Witness ==
    /\ rc_pc = "done"
    /\ \E k \in (DOMAIN rc_remote) \ (DOMAIN rc_local) :
          /\ KeyCategory(k) = "monitor"
          /\ k \in rc_fetched
          /\ rc_cache[k] = rc_remote[k].value

\* C16: read_channel_monitors returns an error, and no list, whenever a monitor
\* record scanned for the node fails to decode, wherever the fold meets it and
\* however many other records decode
C16_UndecodableMonitorFailsRead ==
    rm_pc = "done" =>
        /\ (\E k \in scan_keys(rm_store, MONITORS_PREFIX_KEY, NodeId) :
               ~rm_store[k].decodes)
              => (rm_result = "Err" /\ rm_list = <<>>)
        /\ rm_result = "Ok" =>
              \A k \in scan_keys(rm_store, MONITORS_PREFIX_KEY, NodeId) :
                  rm_store[k].decodes

C16_Witness ==
    /\ rm_pc = "done"
    /\ rm_result = "Err"
    /\ rm_list = <<>>
    /\ Len(rm_acc) = 1
    /\ \E k \in DOMAIN rm_store : EndsWith(k, NodeId) /\ ~rm_store[k].decodes

\* C17: after persist_failed_spendable_outputs calls made one after the other,
\* with no set or clear since, get_failed_spendable_outputs returns the descriptors
\* passed to the calls that returned Ok, those of earlier calls first
C17_FailedOutputsAccumulate ==
    (fo_got.result = "Ok" /\ fo_got.quiet) => fo_got.list = fo_got.expected

C17_Witness ==
    /\ fo_sequential
    /\ Len(fo_calls) = 2
    /\ fo_calls[1].failed = <<"A">>
    /\ fo_calls[1].result = "Ok"
    /\ fo_calls[2].failed = <<"B">>
    /\ fo_calls[2].result = "Ok"
    /\ fo_got.result = "Ok"
    /\ fo_got.quiet
    /\ fo_got.list = <<"A", "B">>

\* C23: in a job only the first write attempt targets the local store (and the
\* remote store when one is configured); is_retry, once true, stays true; an attempt
\* started with is_retry true targets the remote store only, and the local store
\* changes only through an attempt made with is_retry false
C23_OnlyFirstAttemptWritesLocal ==
    [][ /\ \A i \in (DOMAIN jobs) \cap (DOMAIN jobs') :
              /\ jobs[i].is_retry => jobs'[i].is_retry
              /\ (~jobs[i].is_retry /\ jobs'[i].is_retry) => jobs[i].attempts = 1
              /\ (jobs[i].pc # "writing" /\ jobs'[i].pc = "writing") =>
                    IF jobs'[i].is_retry
                    THEN /\ jobs'[i].attempts >= 2
                         /\ jobs'[i].local_res = "skip"
                         /\ vss_client => jobs'[i].remote_res = "pending"
                    ELSE /\ jobs'[i].attempts = 1
                         /\ jobs'[i].local_res = "pending"
                         /\ vss_client => jobs'[i].remote_res = "pending"
        /\ local_store' # local_store =>
              \E i \in DOMAIN jobs :
                  /\ ~jobs[i].is_retry
                  /\ jobs[i].attempts = 1
                  /\ jobs[i].local_res = "pending"
                  /\ local_store' = Put(local_store, jobs[i].key, jobs[i].update_id)
      ]_vars

C23_Witness ==
    \E i \in DOMAIN jobs :
        /\ vss_client
        /\ jobs[i].is_retry
        /\ jobs[i].attempts >= 2
        /\ jobs[i].pc = "writing"
        /\ jobs[i].local_res = "skip"
        /\ jobs[i].remote_res = "pending"
        /\ jobs[i].key \notin DOMAIN local_store

\* C24: a put that the remote store rejects because it already holds a strictly
\* higher version for the key is not a failed attempt for the job: the attempt's
\* remote result is a success and the job does not go on to retry the stale write
C24_StaleRejectionNotAFailure ==
    [][ \A i \in (DOMAIN jobs) \cap (DOMAIN jobs') :
          ( /\ jobs[i].remote_res = "pending"
            /\ jobs'[i].remote_res # "pending"
            /\ failures' = failures
            /\ jobs[i].pc = "writing"
            /\ jobs'[i].pc = "writing"
            /\ jobs[i].key \in DOMAIN vss_store
            /\ vss_store[jobs[i].key].version > jobs[i].version )
          => jobs'[i].remote_res # "err" ]_vars

\* C25: once the stop flag is set no job starts a write attempt: a job at a loop
\* boundary (before its first attempt or in its back-off sleep) terminates instead
C25_NoAttemptAfterStop ==
    [][ stop =>
          \A i \in (DOMAIN jobs) \cap (DOMAIN jobs') :
              ~(jobs[i].pc \in {"sleep", "backoff"} /\ jobs'[i].pc = "writing") ]_vars

\* C26: a persist_manager call makes one write attempt: a failed write ends the call
\* with a generic I/O error and nothing stored, a successful one leaves the envelope
\* {version, value} under "manager_<node_id>", and a call that has returned writes
\* no more
C26_OneWriteAttemptPerCall ==
    [][ \A i \in (DOMAIN calls) \cap (DOMAIN calls') :
          /\ calls[i].pc = "set_data" => calls[i].writes = 0
          /\ calls[i].pc = "returned" =>
                /\ calls'[i].pc = "returned"
                /\ calls'[i].writes = 1
                /\ calls'[i].result = calls[i].result
          /\ (calls[i].pc = "set_data" /\ calls'[i] # calls[i]) =>
                /\ calls'[i].pc = "returned"
                /\ calls'[i].writes = 1
                /\ IF calls'[i].result = "Ok"
                   THEN /\ calls'[i].error = "none"
                        /\ DOMAIN manager_store' = {"manager_node"}
                        /\ manager_store'["manager_node"] =
                              [format |-> "versioned", version |-> calls[i].version,
                               payload |-> "ok", value |-> i]
                   ELSE /\ calls'[i].result = "Err"
                        /\ calls'[i].error = "Other"
                        /\ manager_store' = manager_store ]_vars

C26_Witness ==
    /\ Len(calls) = 2
    /\ calls[1].pc = "returned"
    /\ calls[1].result = "Err"
    /\ calls[1].error = "Other"
    /\ calls[1].writes = 1
    /\ calls[2].result = "Ok"
    /\ calls[2].writes = 1
    /\ manager_store["manager_node"].version = calls[2].version

\* C27: a read that returns a manager reports is_restarting = TRUE exactly when a
\* stored manager (versioned envelope or legacy blob) was found and decoded, and
\* FALSE exactly when nothing was stored under the key and a fresh manager was
\* made; the caller hands the monitors to the chain monitor only when it is TRUE
C27_RestartingIffStoredManager ==
    \A n \in DOMAIN reads :
        LET r == reads[n]
            decoded == /\ r.stored_format \in {"versioned", "legacy"}
                       /\ r.stored_payload = "ok"
        IN  /\ r.result = "Ok" =>
                 /\ r.is_restarting = decoded
                 /\ (~r.is_restarting) = (r.stored_format = "none")
                 /\ r.is_restarting => r.path \in {"versioned", "legacy"}
                 /\ (~r.is_restarting) => r.path = "new"
            /\ r.watched => (r.result = "Ok" /\ r.is_restarting)
            /\ (r.result = "Ok" /\ r.is_restarting) => r.watched

C27_Witness ==
    /\ Len(reads) = 2
    /\ reads[1].result = "Ok"
    /\ reads[1].stored_format = "none"
    /\ ~reads[1].is_restarting
    /\ ~reads[1].watched
    /\ reads[2].result = "Ok"
    /\ reads[2].stored_format = "versioned"
    /\ reads[2].is_restarting
    /\ reads[2].watched

\* C28 as stated: every failed read of a stored manager value went through the
\* legacy decoding before the error was returned
C28_EveryFailureTriesLegacy ==
    \A n \in DOMAIN reads :
        (reads[n].result = "Err" /\ reads[n].stored_format # "none")
            => reads[n].path = "legacy"

\* C28: the legacy decoding is attempted exactly when the stored value does not
\* deserialise as an envelope; when the envelope deserialises and its value is not
\* a hex string, is not hex, or does not parse, the error is returned from the
\* versioned arm with no legacy attempt
C28_LegacyOnlyWhenEnvelopeUnreadable ==
    \A n \in DOMAIN reads :
        LET r == reads[n]
        IN  /\ (r.path = "legacy") = (r.stored_format \in {"legacy", "junk"})
            /\ (r.stored_format = "versioned" /\ r.stored_payload # "ok")
                  => (r.result = "Err" /\ r.path = "versioned")
            /\ (r.result = "Err" /\ r.path = "legacy")
                  => r.stored_payload # "ok"

C28_Witness ==
    \E n \in DOMAIN reads :
        /\ reads[n].stored_format = "versioned"
        /\ reads[n].stored_payload \in {"not_string", "not_hex", "bad_bytes"}
        /\ reads[n].result = "Err"
        /\ reads[n].path = "versioned"

C30_UndecodableRemoteNeverInstalled ==
    rc_pc = "done" =>
        \A k \in DOMAIN rc_remote :
            ( /\ KeyCategory(k) \in {"monitor", "manager"}
              /\ rc_remote[k].value.kind # KindOf(KeyCategory(k)) )
            => IF k \in DOMAIN rc_local
               THEN k \in DOMAIN rc_cache /\ rc_cache[k] = rc_local[k]
               ELSE k \notin DOMAIN rc_cache

\* C21: a payment record is kept per (node, direction, hash): a read returns the
\* info of the last persist of that node, direction and hash, or nothing when
\* there was none, so a persist in one direction leaves the other direction's
\* records as they were; a listing of a direction has one entry per hash
\* persisted in it, under that hash and with its last info
C21_PaymentKeyedOverwrite ==
    /\ \A n \in NodeIds, h \in PaymentHashes, inbound \in BOOLEAN :
          read_payment_info(pay_store, n, h, inbound) =
             IF <<n, inbound, h>> \in DOMAIN pay_last
             THEN pay_last[<<n, inbound, h>>] ELSE "None"
    /\ pay_got.op = "read" =>
          pay_got.value =
             IF <<pay_got.node_id, pay_got.inbound, pay_got.hash>> \in DOMAIN pay_last
             THEN pay_last[<<pay_got.node_id, pay_got.inbound, pay_got.hash>>]
             ELSE "None"
    /\ pay_got.op = "list" =>
          LET persisted == {h \in PaymentHashes :
                               <<pay_got.node_id, pay_got.inbound, h>> \in DOMAIN pay_last}
              entries == pay_got.list
          IN  /\ {entries[k].hash : k \in DOMAIN entries} = persisted
              /\ Cardinality(DOMAIN entries) = Cardinality(persisted)
              /\ \A k \in DOMAIN entries :
                    entries[k].info =
                       pay_last[<<pay_got.node_id, pay_got.inbound, entries[k].hash>>]

C21_Witness ==
    /\ pay_overwritten
    /\ pay_got.op = "list"
    /\ pay_got.node_id = "node"
    /\ pay_got.inbound
    /\ Cardinality(DOMAIN pay_got.list) = 1
    /\ \A k \in DOMAIN pay_got.list :
          pay_got.list[k] = [hash |-> <<0>>, info |-> "Succeeded"]
    /\ <<"node", FALSE, <<0>>>> \in DOMAIN pay_last
    /\ pay_last[<<"node", FALSE, <<0>>>>] = "Pending"
    /\ <<"other", TRUE, <<0>>>> \in DOMAIN pay_last
    /\ pay_last[<<"other", TRUE, <<0>>>>] = "Pending"

C31_OtherKeysNeverFetched ==
    \A k \in DOMAIN rc_remote :
        KeyCategory(k) = "other" =>
            /\ k \notin rc_fetched
            /\ rc_pc = "done" =>
                  IF k \in DOMAIN rc_local
                  THEN k \in DOMAIN rc_cache /\ rc_cache[k] = rc_local[k]
                  ELSE k \notin DOMAIN rc_cache

C31_Witness ==
    /\ rc_pc = "done"
    /\ \E k \in (DOMAIN rc_remote) \cap (DOMAIN rc_local) :
          /\ KeyCategory(k) = "other"
          /\ k \in DOMAIN rc_results
          /\ k \notin rc_fetched
          /\ rc_cache[k] = rc_local[k]
          /\ rc_remote[k].value # rc_local[k]

C33_NoDescriptorDropped ==
    ( /\ Len(fo_calls) = 2
      /\ \A i \in DOMAIN fo_calls : fo_calls[i].result = "Ok" )
    => \A n \in DOMAIN fo_expected :
          \E m \in DOMAIN fo_store.list : fo_store.list[m] = ToHex(fo_expected[n])

\* C34: a get that follows set_failed_spendable_outputs(D) returns exactly D,
\* whatever was stored before; clear_failed_spendable_outputs removes the key and a
\* get that follows it returns the empty list; a persist_failed_spendable_outputs(F)
\* that reads and writes after the clear leaves exactly F
C34_SetReplacesClearDeletes ==
    /\ fo_got.last = "set" => fo_store = [present |-> TRUE, list |-> ToHexAll(fo_got.arg)]
    /\ fo_got.last = "clear" => ~fo_store.present
    /\ fo_got.result = "Ok" =>
          /\ fo_got.last = "set" => fo_got.list = fo_got.arg
          /\ fo_got.last = "clear" => fo_got.list = <<>>
          /\ fo_got.last = "persist_after_clear" => fo_got.list = fo_got.arg

C34_Witness ==
    /\ Len(fo_calls) = 2
    /\ fo_calls[1].result = "Ok"
    /\ fo_calls[2].read_after = "clear"
    /\ fo_calls[2].result = "Ok"
    /\ fo_got.result = "Ok"
    /\ fo_got.last = "persist_after_clear"
    /\ fo_got.arg = <<"A", "B">>
    /\ fo_got.list = <<"A", "B">>

\* C35: a set, set_async or delete made while the cache lock is held in a
\* conflicting mode has no effect: the cache is left as it was and no operation
\* on IndexedDB is started
C35_ContendedCallHasNoEffect ==
    [][ (~TryWrite(idb_lock) /\ idb_calls' # idb_calls)
        => (idb_memory' = idb_memory /\ idb_queue' = idb_queue) ]_vars

C36_HandlePopulatedAtAck ==
    \A i \in DOMAIN jobs : jobs[i].pc = "notify" => chain_monitor = "Some"

\* C37: after the load, a monitor key or a channel-manager key that had a
\* readable local value holds in the cache a value whose version (update id,
\* respectively envelope version) is not lower than the local value's
C37_NeverLowersVersion ==
    rc_pc = "done" =>
        \A k \in DOMAIN rc_local :
            (KeyCategory(k) \in {"monitor", "manager"} /\ LocalGet(rc_local, k) = "Some") =>
                /\ k \in DOMAIN rc_cache
                /\ rc_cache[k].kind = KindOf(KeyCategory(k)) =>
                      rc_cache[k].version >= rc_local[k].version

\* C38: with a remote store, a load whose list_key_versions or whose get_object
\* for some key fails ends in an error and returns no cache: it never goes on
\* with the local map, and what was fetched for the other keys is dropped
C38_FailedLoadProducesNoCache ==
    [][ /\ (rc_vss /\ rc_pc = "start") => rc_pc' \in {"listed", "failed"}
        /\ rc_pc = "failed" => rc_pc' = "failed"
        /\ rc_pc' # "done" => rc_cache' = EmptyMap
        /\ (rc_pc = "listed" /\ rc_pc' # "listed"
            /\ \E k \in rc_fetched : rc_results[k] = "err") =>
               (rc_pc' = "failed" /\ rc_cache' = EmptyMap) ]_vars

C38_Witness ==
    /\ rc_pc = "failed"
    /\ rc_cache = EmptyMap
    /\ \E k1, k2 \in DOMAIN rc_results :
          /\ k1 # k2
          /\ rc_results[k1] = "some"
          /\ k1 \in rc_fetched
          /\ rc_results[k2] = "err"
          /\ k2 \in rc_fetched

\* C39: the monitors returned to a node by read_channel_monitors were all
\* written by a persister with that node's identifier, whatever other
\* identifiers have records in the shared store
C39_NodesIsolated ==
    rm_result = "Ok" =>
        \A i \in 1..Len(rm_list) :
            \E channel \in Channels : rm_list[i] = MonitorKeyOf(channel, NodeId)

====
